---- MODULE Spec2Model ----
(***************************************************************************)
(* Model of the deoAI video pipeline: the orchestrators of app.py and     *)
(* app_cli.py, the voice-over and visual generators with their fallbacks, *)
(* and the video assembler.                                                *)
(*                                                                         *)
(* Spec           one process: application objects are constructed, then  *)
(*                one orchestrated run goes from script to final video.   *)
(* SpecAssembler  direct calls of VideoAssembler.assemble_video on any    *)
(*                list of scene assets over any state of the files.       *)
(* SpecGenerators direct, repeated calls of the two generators.           *)
(* SpecGui        the handlers of the window of app.py: Generate clicks,  *)
(*                the worker thread's run, the finished handler.          *)
(* SpecFair       runs of the backend of app.py with the scheduling of    *)
(*                the thread that executes them.                          *)
(* SpecSegmenter  direct calls of split_script_into_scenes.               *)
(* SpecStartup    construction of the window and of its backend.          *)
(***************************************************************************)
EXTENDS Integers, Sequences, FiniteSets, TLC

\* Largest number of paragraphs of a script / entries of a scene-asset list.
MaxScenes == 2
\* Largest number of further application objects constructed in the process.
MaxOthers == 1

\* Largest number of workers the window starts.
MaxRuns == 2

\* voiceover_generator.py: lengths (ms) of the three silence fallbacks.
UnavailableSilenceMs == 2000
EmptyTextSilenceMs == 1000
SynthesisErrorSilenceMs == 3000
\* app.py / app_cli.py: length (ms) of the orchestrator's own silence fallback.
OrchestratorSilenceMs == 2000
\* app.py: total_steps.
total_steps == 3
\* video_assembler.py: volumex(0.2), as a percentage.
BgVolumePercent == 20
\* canonical resolution of the placeholder frames.
FrameWidth == 1920
FrameHeight == 1080

VARIABLES
    CHATTTERBOX_AVAILABLE,       \* voiceover_generator.py module global
    VISUAL_GENERATOR_AVAILABLE,  \* visual_generator.py module global
    apps,                        \* application objects: built, vo_model, vis_pipeline
    fs,                          \* the files: path -> content
    pc,                          \* position of the run
    front,                       \* "gui" (app.py backend) or "cli" (app_cli.py)
    inst,                        \* the application object the run uses
    raw_script,                  \* argument of generate_video_from_script
    background_music_path,       \* argument of generate_video_from_script
    processed_scenes,            \* result of process_script
    i,                           \* loop index of the scene loop
    audio_path,                  \* local of the loop body
    scene_assets,                \* list of {image_path, audio_path}
    notes,                       \* signals emitted by the backend, in order
    calls,                       \* calls made to the components, in order
    hist,                        \* how process_script ended; per scene: what each engine did, what each generator returned
    ret,                         \* return value of the call
    video,                       \* what assemble_video built
    scene_data,                  \* argument of a direct assemble_video call
    window                       \* the FacelessVideoGUI object of app.py

vars == << CHATTTERBOX_AVAILABLE, VISUAL_GENERATOR_AVAILABLE, apps, fs, pc, front,
           inst, raw_script, background_music_path, processed_scenes, i,
           audio_path, scene_assets, notes, calls, hist, ret, video, scene_data,
           window >>

-----------------------------------------------------------------------------
(* Values *)

\* Python's None and the empty string: both falsy.
None == << "None" >>
EmptyStr == << >>
Falsy(p) == p = None \/ p = EmptyStr

\* os.path.join(directory, f"{stem}_{index}.ext")
Path(dir, stem, idx) == << dir, stem, idx >>

SceneIndices == 0 .. (MaxScenes - 1)

SilentWavPath == Path("module_dir", "silent.wav", 0)
BgMusicPath == Path("user", "music.mp3", 0)
MissingPath == Path("user", "missing", 0)
TimestampedName == "faceless_video_timestamp.mp4"
DefaultName == "final_video.mp4"

AudioStems == { "scene", "scene_silent", "scene_error" }

AllPaths ==
    { Path("generated_audio", s, k) : s \in AudioStems, k \in SceneIndices }
    \cup { Path("generated_images", "scene", k) : k \in SceneIndices }
    \cup { Path("temp_assets", "silent_fallback", k) : k \in SceneIndices }
    \cup { Path("temp_assets", "black_placeholder", k) : k \in SceneIndices }
    \cup { Path("final_videos", TimestampedName, 0), Path("final_videos", DefaultName, 0) }
    \cup { SilentWavPath, BgMusicPath, MissingPath }

Absent == [ kind |-> "absent", ms |-> 0, w |-> 0, h |-> 0, look |-> "none" ]
Wav(ms) == [ kind |-> "wav", ms |-> ms, w |-> 0, h |-> 0, look |-> "none" ]
Png(w, h, look) == [ kind |-> "png", ms |-> 0, w |-> w, h |-> h, look |-> look ]
Mp4(ms) == [ kind |-> "mp4", ms |-> ms, w |-> 0, h |-> 0, look |-> "none" ]

\* os.path.exists(p)
Exists(fsys, p) == p \in DOMAIN fsys /\ fsys[p].kind # "absent"

\* the files after writing each <<path, content>> of `writes`
WriteAll(fsys, writes) ==
    [ p \in DOMAIN fsys |->
        IF \E wr \in writes : wr[1] = p
        THEN (CHOOSE wr \in writes : wr[1] = p)[2]
        ELSE fsys[p] ]

-----------------------------------------------------------------------------
(* Scene texts *)

Markup == { "*", "_", "backtick", "#" }
Whitespace == { " ", "\n", "\r" }

\* re.sub over the markup characters: each is removed
RemoveMarkup(t) == SelectSeq(t, LAMBDA c : c \notin Markup)

\* re.sub: each run of whitespace becomes one space
RECURSIVE CollapseWs(_)
CollapseWs(t) ==
    IF t = << >> THEN << >>
    ELSE IF Head(t) \in Whitespace
         THEN IF Len(t) > 1 /\ t[2] \in Whitespace
              THEN CollapseWs(Tail(t))
              ELSE << " " >> \o CollapseWs(Tail(t))
         ELSE << Head(t) >> \o CollapseWs(Tail(t))

\* str.strip()
RECURSIVE LStrip(_)
LStrip(t) == IF t # << >> /\ Head(t) \in Whitespace THEN LStrip(Tail(t)) ELSE t
RECURSIVE RStrip(_)
RStrip(t) ==
    IF t # << >> /\ t[Len(t)] \in Whitespace THEN RStrip(SubSeq(t, 1, Len(t) - 1)) ELSE t
Strip(t) == RStrip(LStrip(t))

\* voiceover_generator.py: cleaned_text
CleanedText(t) == Strip(CollapseWs(RemoveMarkup(t)))

\* paragraphs a script is made of: narration with markup, markup only, blank
Paragraphs ==
    { << "#", "a", " ", "\n", "*", "b", "*" >>,
      << "*", " ", "_" >>,
      << " ", "\n" >> }

Scripts == UNION { [ 1 .. n -> Paragraphs ] : n \in 0 .. MaxScenes }

\* ScriptProcessor.process_script is called by both orchestrators and has no
\* definition in the sources; it is modelled from the segmenter's contract:
\* the non-blank paragraphs, trimmed, in script order.
process_script(script) ==
    LET trimmed == [ k \in 1 .. Len(script) |-> Strip(script[k]) ]
    IN  SelectSeq(trimmed, LAMBDA p : p # << >>)

-----------------------------------------------------------------------------
(* The segmenter of script_processor.py *)

\* For the segmenter a script is a sequence of words and white-space
\* characters. "Scene" followed by white space and a word that starts with a
\* digit is a scene marker; a word written with a final full stop ends a
\* sentence.
SceneWord == "Scene"
DigitWords == { "1:", "2:", "3:" }
SentenceEnds == { "b." }

\* the characters of t at the positions kept, in their order
KeepWhere(t, kept) ==
    LET numbered == [ k \in 1 .. Len(t) |-> [ c |-> t[k], kept |-> k \in kept ] ]
        rest == SelectSeq(numbered, LAMBDA m : m.kept)
    IN  [ k \in 1 .. Len(rest) |-> rest[k].c ]

\* str.replace('\r\n', '\n'): a carriage return that a newline follows goes
ReplaceCrLf(t) ==
    KeepWhere(t, { k \in 1 .. Len(t) : ~(t[k] = "\r" /\ k < Len(t) /\ t[k + 1] = "\n") })

\* str.replace('\r', '\n')
ReplaceCr(t) == [ k \in 1 .. Len(t) |-> IF t[k] = "\r" THEN "\n" ELSE t[k] ]

\* re.sub(r'\n{2,}', '\n\n', ...): each run of two or more newlines becomes
\* two, a newline that comes after two newlines goes
CollapseNewlines(t) ==
    KeepWhere(t, { k \in 1 .. Len(t) :
                     ~(t[k] = "\n" /\ k > 2 /\ t[k - 1] = "\n" /\ t[k - 2] = "\n") })

\* script_processor.py lines 56-57: the normalised script
NormalisedScript(script_text) == Strip(CollapseNewlines(ReplaceCr(ReplaceCrLf(script_text))))

\* the least number of a non-empty set of numbers
Least(S) == CHOOSE m \in S : \A n \in S : m <= n

\* str.split('\n\n'): the text is cut at the first pair of newlines, and
\* what follows the pair is split in the same way
RECURSIVE SplitBlankLines(_)
SplitBlankLines(t) ==
    LET breaks == { k \in 1 .. Len(t) - 1 : t[k] = "\n" /\ t[k + 1] = "\n" }
    IN  IF breaks = {} THEN << t >>
        ELSE << SubSeq(t, 1, Least(breaks) - 1) >>
             \o SplitBlankLines(SubSeq(t, Least(breaks) + 2, Len(t)))

\* "\n\n".join(...)
RECURSIVE JoinBlankLines(_)
JoinBlankLines(ps) ==
    IF ps = << >> THEN << >>
    ELSE IF Len(ps) = 1 THEN ps[1]
    ELSE ps[1] \o << "\n", "\n" >> \o JoinBlankLines(Tail(ps))

\* paragraphs = [p.strip() for p in script_text.split('\n\n') if p.strip()]
SplitParagraphs(t) ==
    LET parts == SplitBlankLines(t)
        trimmed == [ k \in 1 .. Len(parts) |-> Strip(parts[k]) ]
    IN  SelectSeq(trimmed, LAMBDA q : q # << >>)

\* re.match of the scene-indicator pattern at the start of a text. Of its
\* alternatives only SCENE\s+\d+ can match a text of the words above.
is_scene_indicator(t) ==
    /\ t # << >>
    /\ Head(t) = SceneWord
    /\ LET rest == Tail(t)
           after == LStrip(rest)
       IN  /\ after # rest
           /\ after # << >>
           /\ Head(after) \in DigitWords

\* nltk's sent_tokenize: the text is cut after each word that ends a sentence;
\* a paragraph break without a full stop before it ends no sentence
RECURSIVE Sentences(_)
Sentences(t) ==
    LET ends == { k \in 1 .. Len(t) : t[k] \in SentenceEnds }
    IN  IF ends = {} THEN IF Strip(t) = << >> THEN << >> ELSE << Strip(t) >>
        ELSE << Strip(SubSeq(t, 1, Least(ends))) >>
             \o Sentences(SubSeq(t, Least(ends) + 1, Len(t)))
sent_tokenize(t) == Sentences(t)

\* str.split(): the words of a text
SplitWords(t) == SelectSeq(t, LAMBDA c : c \notin Whitespace)

\* thresholds of the three passes
ContinuationMaxSentences == 2
ContinuationMaxWords == 15
ShortSceneSentences == 3
ShortSceneWords == 50
FragmentMaxWords == 10

\* the loop over the paragraphs: a scene indicator closes the scene being
\* collected and opens the next; every other paragraph joins the scene being
\* collected, through either of the two remaining branches
RECURSIVE GroupParagraphs(_, _, _)
GroupParagraphs(paragraphs, scenes, current_scene_paragraphs) ==
    IF paragraphs = << >>
    THEN IF current_scene_paragraphs # << >>
         THEN Append(scenes, JoinBlankLines(current_scene_paragraphs))
         ELSE scenes
    ELSE LET paragraph == Head(paragraphs)
         IN  IF is_scene_indicator(paragraph) /\ current_scene_paragraphs # << >>
             THEN GroupParagraphs(Tail(paragraphs),
                                  Append(scenes,
                                         JoinBlankLines(current_scene_paragraphs)),
                                  << paragraph >>)
             ELSE IF /\ Len(sent_tokenize(paragraph)) <= ContinuationMaxSentences
                     /\ Len(SplitWords(paragraph)) < ContinuationMaxWords
                     /\ current_scene_paragraphs # << >>
             THEN GroupParagraphs(Tail(paragraphs), scenes,
                                  Append(current_scene_paragraphs, paragraph))
             ELSE GroupParagraphs(Tail(paragraphs), scenes,
                                  Append(current_scene_paragraphs, paragraph))

\* mutant: a scene that is not short is emitted before the short scenes held
\* back ahead of it
RECURSIVE MergeShortScenes_FlushesLate(_, _, _, _)
MergeShortScenes_FlushesLate(scenes, idx, final_scenes, temp_scene) ==
    IF idx >= Len(scenes)
    THEN IF temp_scene # << >> THEN Append(final_scenes, temp_scene) ELSE final_scenes
    ELSE LET scene == scenes[idx + 1]
         IN  IF /\ Len(sent_tokenize(scene)) < ShortSceneSentences
                /\ idx > 0
                /\ Len(SplitWords(scene)) < ShortSceneWords
             THEN MergeShortScenes_FlushesLate(scenes, idx + 1, final_scenes,
                                               IF temp_scene # << >>
                                               THEN temp_scene \o << "\n", "\n" >> \o scene
                                               ELSE scene)
             ELSE MergeShortScenes_FlushesLate(scenes, idx + 1,
                                               IF temp_scene # << >>
                                               THEN Append(Append(final_scenes, scene),
                                                           temp_scene)
                                               ELSE Append(final_scenes, scene),
                                               << >>)

\* the loop over the scenes: a short scene other than the first is held back
\* in temp_scene, joined to the short scenes held back before it, and is
\* emitted before the next scene that is not short, or at the end
RECURSIVE MergeShortScenes(_, _, _, _)
MergeShortScenes(scenes, idx, final_scenes, temp_scene) ==
    IF idx >= Len(scenes)
    THEN IF temp_scene # << >> THEN Append(final_scenes, temp_scene) ELSE final_scenes
    ELSE LET scene == scenes[idx + 1]
         IN  IF /\ Len(sent_tokenize(scene)) < ShortSceneSentences
                /\ idx > 0
                /\ Len(SplitWords(scene)) < ShortSceneWords
             THEN MergeShortScenes(scenes, idx + 1, final_scenes,
                                   IF temp_scene # << >>
                                   THEN temp_scene \o << "\n", "\n" >> \o scene
                                   ELSE scene)
             ELSE MergeShortScenes(scenes, idx + 1,
                                   Append(IF temp_scene # << >>
                                          THEN Append(final_scenes, temp_scene)
                                          ELSE final_scenes,
                                          scene),
                                   << >>)

\* the condition of the cleaning loop: a one-sentence fragment of few words
\* that is no scene indicator
IsFragment(scene) ==
    /\ Len(sent_tokenize(scene)) = 1
    /\ Len(SplitWords(scene)) < FragmentMaxWords
    /\ ~is_scene_indicator(Strip(scene))

\* mutant: the cleaning loop skips the fragments
CleanScenes_DropsFragments(final_scenes) ==
    SelectSeq(final_scenes, LAMBDA scene : ~IsFragment(scene))

\* the cleaning loop: the branch taken for a fragment is a pass, and every
\* scene is appended
CleanScenes(final_scenes) ==
    [ k \in 1 .. Len(final_scenes) |->
        IF IsFragment(final_scenes[k]) THEN final_scenes[k] ELSE final_scenes[k] ]

\* ScriptProcessor.split_script_into_scenes
split_script_into_scenes(script_text) ==
    IF script_text = << >> \/ Strip(script_text) = << >> THEN << >>
    ELSE LET paragraphs == SplitParagraphs(NormalisedScript(script_text))
             scenes == GroupParagraphs(paragraphs, << >>, << >>)
             final_scenes == MergeShortScenes(scenes, 0, << >>, << >>)
         IN  CleanScenes(final_scenes)

-----------------------------------------------------------------------------
(* Engines *)

\* what one call of the TTS engine / the diffusion pipeline does
SynthMs == { 4000, 6000 }
NotCalled == [ raises |-> FALSE, ms |-> 0 ]
EngineOutcomes ==
    { [ raises |-> TRUE, ms |-> 0 ] } \cup { [ raises |-> FALSE, ms |-> d ] : d \in SynthMs }

ImageOutcomes == { [ raises |-> TRUE, ms |-> 0 ], [ raises |-> FALSE, ms |-> 0 ] }

\* mutant: the unavailable branch returns no path and writes no file, as the
\* visual generator does
generate_voiceover_for_scene_NoFile(avail, model, scene_text, scene_index, engine) ==
    IF ~avail \/ model = "None"
    THEN [ branch |-> "unavailable", called |-> FALSE, path |-> EmptyStr, wrote |-> { } ]
    ELSE IF CleanedText(scene_text) = << >>
    THEN LET p == Path("generated_audio", "scene_silent", scene_index)
         IN  [ branch |-> "empty", called |-> FALSE, path |-> p,
               wrote |-> { << p, Wav(EmptyTextSilenceMs) >> } ]
    ELSE IF engine.raises
    THEN LET p == Path("generated_audio", "scene_error", scene_index)
         IN  [ branch |-> "error", called |-> TRUE, path |-> p,
               wrote |-> { << p, Wav(SynthesisErrorSilenceMs) >> } ]
    ELSE LET p == Path("generated_audio", "scene", scene_index)
         IN  [ branch |-> "ok", called |-> TRUE, path |-> p,
               wrote |-> { << p, Wav(engine.ms) >> } ]

\* mutant: the text is sanitised and tested before the engine's availability
generate_voiceover_for_scene_TextFirst(avail, model, scene_text, scene_index, engine) ==
    IF CleanedText(scene_text) = << >>
    THEN LET p == Path("generated_audio", "scene_silent", scene_index)
         IN  [ branch |-> "empty", called |-> FALSE, path |-> p,
               wrote |-> { << p, Wav(EmptyTextSilenceMs) >> } ]
    ELSE IF ~avail \/ model = "None"
    THEN LET p == Path("generated_audio", "scene_silent", scene_index)
         IN  [ branch |-> "unavailable", called |-> FALSE, path |-> p,
               wrote |-> { << p, Wav(UnavailableSilenceMs) >> } ]
    ELSE IF engine.raises
    THEN LET p == Path("generated_audio", "scene_error", scene_index)
         IN  [ branch |-> "error", called |-> TRUE, path |-> p,
               wrote |-> { << p, Wav(SynthesisErrorSilenceMs) >> } ]
    ELSE LET p == Path("generated_audio", "scene", scene_index)
         IN  [ branch |-> "ok", called |-> TRUE, path |-> p,
               wrote |-> { << p, Wav(engine.ms) >> } ]

\* mutant: the except branch leaves a file under the name of the synthesised
\* audio as well
generate_voiceover_for_scene_WritesTwo(avail, model, scene_text, scene_index, engine) ==
    IF ~avail \/ model = "None"
    THEN LET p == Path("generated_audio", "scene_silent", scene_index)
         IN  [ branch |-> "unavailable", called |-> FALSE, path |-> p,
               wrote |-> { << p, Wav(UnavailableSilenceMs) >> } ]
    ELSE IF CleanedText(scene_text) = << >>
    THEN LET p == Path("generated_audio", "scene_silent", scene_index)
         IN  [ branch |-> "empty", called |-> FALSE, path |-> p,
               wrote |-> { << p, Wav(EmptyTextSilenceMs) >> } ]
    ELSE IF engine.raises
    THEN LET p == Path("generated_audio", "scene_error", scene_index)
         IN  [ branch |-> "error", called |-> TRUE, path |-> p,
               wrote |-> { << p, Wav(SynthesisErrorSilenceMs) >>,
                           << Path("generated_audio", "scene", scene_index),
                              Wav(SynthesisErrorSilenceMs) >> } ]
    ELSE LET p == Path("generated_audio", "scene", scene_index)
         IN  [ branch |-> "ok", called |-> TRUE, path |-> p,
               wrote |-> { << p, Wav(engine.ms) >> } ]

\* VoiceoverGenerator.generate_voiceover_for_scene: the branch taken, the
\* path returned and the files written
generate_voiceover_for_scene(avail, model, scene_text, scene_index, engine) ==
    IF ~avail \/ model = "None"
    THEN LET p == Path("generated_audio", "scene_silent", scene_index)
         IN  [ branch |-> "unavailable", called |-> FALSE, path |-> p,
               wrote |-> { << p, Wav(UnavailableSilenceMs) >> } ]
    ELSE IF CleanedText(scene_text) = << >>
    THEN LET p == Path("generated_audio", "scene_silent", scene_index)
         IN  [ branch |-> "empty", called |-> FALSE, path |-> p,
               wrote |-> { << p, Wav(EmptyTextSilenceMs) >> } ]
    ELSE IF engine.raises
    THEN LET p == Path("generated_audio", "scene_error", scene_index)
         IN  [ branch |-> "error", called |-> TRUE, path |-> p,
               wrote |-> { << p, Wav(SynthesisErrorSilenceMs) >> } ]
    ELSE LET p == Path("generated_audio", "scene", scene_index)
         IN  [ branch |-> "ok", called |-> TRUE, path |-> p,
               wrote |-> { << p, Wav(engine.ms) >> } ]

\* VisualGenerator.generate_visual_for_scene
generate_visual_for_scene(avail, pipeline, scene_text, scene_index, engine) ==
    IF ~avail \/ pipeline = "None"
    THEN [ branch |-> "unavailable", called |-> FALSE, path |-> EmptyStr, wrote |-> { } ]
    ELSE IF engine.raises
    THEN [ branch |-> "error", called |-> TRUE, path |-> EmptyStr, wrote |-> { } ]
    ELSE LET p == Path("generated_images", "scene", scene_index)
         IN  [ branch |-> "ok", called |-> TRUE, path |-> p,
               wrote |-> { << p, Png(512, 512, "generated") >> } ]

-----------------------------------------------------------------------------
(* VideoAssembler *)

ColorClip == [ src |-> "ColorClip", path |-> EmptyStr, w |-> FrameWidth, h |-> FrameHeight,
               look |-> "black" ]
ImageClip(fsys, p) == [ src |-> "ImageClip", path |-> p, w |-> fsys[p].w, h |-> fsys[p].h,
                        look |-> fsys[p].look ]

\* mutant: the image clip keeps a fixed duration instead of its audio's
SceneClip_FixedDuration(scene, fsys) ==
    LET img_clip == IF Falsy(scene.image_path) \/ ~Exists(fsys, scene.image_path)
                    THEN ColorClip
                    ELSE ImageClip(fsys, scene.image_path)
        audio_src == IF Falsy(scene.audio_path) \/ ~Exists(fsys, scene.audio_path)
                     THEN SilentWavPath
                     ELSE scene.audio_path
    IN  IF ~Exists(fsys, audio_src)
        THEN [ raised |-> TRUE, image |-> img_clip, audio |-> audio_src, duration |-> 0 ]
        ELSE [ raised |-> FALSE, image |-> img_clip, audio |-> audio_src,
               duration |-> UnavailableSilenceMs ]

\* assemble_video, body of the loop for one scene: the image clip with its
\* duration and audio set, or the error AudioFileClip raises on a missing file
SceneClip(scene, fsys) ==
    LET img_clip == IF Falsy(scene.image_path) \/ ~Exists(fsys, scene.image_path)
                    THEN ColorClip
                    ELSE ImageClip(fsys, scene.image_path)
        audio_src == IF Falsy(scene.audio_path) \/ ~Exists(fsys, scene.audio_path)
                     THEN SilentWavPath
                     ELSE scene.audio_path
    IN  IF ~Exists(fsys, audio_src)
        THEN [ raised |-> TRUE, image |-> img_clip, audio |-> audio_src, duration |-> 0 ]
        ELSE [ raised |-> FALSE, image |-> img_clip, audio |-> audio_src,
               duration |-> fsys[audio_src].ms ]

\* assemble_video, the loop over scene_data: video_clips, in order, up to the
\* first scene whose clip raises
RECURSIVE BuildClips(_, _, _)
BuildClips(sd, fsys, acc) ==
    IF sd = << >> THEN [ raised |-> FALSE, clips |-> acc ]
    ELSE LET c == SceneClip(Head(sd), fsys)
         IN  IF c.raised THEN [ raised |-> TRUE, clips |-> acc ]
             ELSE BuildClips(Tail(sd), fsys, Append(acc, c))

\* mutant: the clips are laid over one another, the longest giving the length
RECURSIVE SumDurations_Longest(_)
RECURSIVE SumDurations(_)
SumDurations_Longest(clips) ==
    IF clips = << >> THEN 0
    ELSE LET rest == SumDurations_Longest(Tail(clips))
         IN  IF Head(clips).duration > rest THEN Head(clips).duration ELSE rest

SumDurations(clips) ==
    IF clips = << >> THEN 0 ELSE Head(clips).duration + SumDurations(Tail(clips))

\* concatenate_videoclips: each clip starts where the previous one ends
concatenate_videoclips(clips) ==
    [ segments |-> [ k \in 1 .. Len(clips) |->
                       [ image |-> clips[k].image, audio |-> clips[k].audio,
                         start |-> SumDurations(SubSeq(clips, 1, k - 1)),
                         end |-> SumDurations(SubSeq(clips, 1, k)) ] ],
      duration |-> SumDurations(clips),
      bg |-> "none", bg_ms |-> 0, bg_gain |-> 0 ]

NoVideo == [ segments |-> << >>, duration |-> 0, bg |-> "none", bg_ms |-> 0, bg_gain |-> 0 ]

\* mutant: a track exactly as long as the video is looped, not cut
AddBackgroundMusic_LoopWhenEqual(clip, bgm, fsys, mix_raises) ==
    IF ~Falsy(bgm) /\ Exists(fsys, bgm)
    THEN IF mix_raises THEN [ clip EXCEPT !.bg = "error" ]
         ELSE IF fsys[bgm].ms <= clip.duration
              THEN [ clip EXCEPT !.bg = "loop", !.bg_ms = clip.duration,
                                 !.bg_gain = BgVolumePercent ]
              ELSE [ clip EXCEPT !.bg = "subclip", !.bg_ms = clip.duration,
                                 !.bg_gain = BgVolumePercent ]
    ELSE clip

\* mutant: an error in the block leaves the track, as loaded, in the audio
AddBackgroundMusic_KeepsPartialMix(clip, bgm, fsys, mix_raises) ==
    IF ~Falsy(bgm) /\ Exists(fsys, bgm)
    THEN IF mix_raises
         THEN [ clip EXCEPT !.bg = "error", !.bg_ms = fsys[bgm].ms, !.bg_gain = 100 ]
         ELSE IF fsys[bgm].ms < clip.duration
              THEN [ clip EXCEPT !.bg = "loop", !.bg_ms = clip.duration,
                                 !.bg_gain = BgVolumePercent ]
              ELSE [ clip EXCEPT !.bg = "subclip", !.bg_ms = clip.duration,
                                 !.bg_gain = BgVolumePercent ]
    ELSE clip

\* assemble_video, the background music block: the track is looped or cut to
\* the length of the video, its volume set, and mixed under the voice audio.
\* bg tells what the audio of the clip holds besides the voice: "none" (block
\* not entered), "loop" or "subclip" (the track, bg_ms long, at bg_gain per
\* cent), "error" (a step of the block raised: the except branch leaves the
\* clip's audio as it was)
AddBackgroundMusic(clip, bgm, fsys, mix_raises) ==
    IF ~Falsy(bgm) /\ Exists(fsys, bgm)
    THEN IF mix_raises THEN [ clip EXCEPT !.bg = "error" ]
         ELSE IF fsys[bgm].ms < clip.duration
              THEN [ clip EXCEPT !.bg = "loop", !.bg_ms = clip.duration,
                                 !.bg_gain = BgVolumePercent ]
              ELSE [ clip EXCEPT !.bg = "subclip", !.bg_ms = clip.duration,
                                 !.bg_gain = BgVolumePercent ]
    ELSE clip

\* VideoAssembler.assemble_video. encode_raises: write_videofile fails (the
\* encoder is outside this code); nothing is then returned and the output file
\* is not complete
assemble_video(sd, bgm, output_filename, fsys, mix_raises, encode_raises) ==
    LET built == BuildClips(sd, fsys, << >>)
    IN  IF built.raised
        THEN [ raised |-> TRUE, ret |-> None, clips |-> built.clips, video |-> NoVideo,
               wrote |-> { } ]
        ELSE IF built.clips = << >>
        THEN [ raised |-> FALSE, ret |-> None, clips |-> << >>, video |-> NoVideo,
               wrote |-> { } ]
        ELSE LET final == AddBackgroundMusic(concatenate_videoclips(built.clips),
                                             bgm, fsys, mix_raises)
                 output_filepath == Path("final_videos", output_filename, 0)
             IN  IF encode_raises
                 THEN [ raised |-> TRUE, ret |-> None, clips |-> built.clips,
                        video |-> NoVideo, wrote |-> { } ]
                 ELSE [ raised |-> FALSE, ret |-> output_filepath,
                        clips |-> built.clips, video |-> final,
                        wrote |-> { << output_filepath, Mp4(final.duration) >> } ]

-----------------------------------------------------------------------------
(* Construction of the application objects *)

\* mutant: the model is loaded whatever the flag, and a model that loads puts
\* the flag up again
VoiceoverGenerator_init_Restores(avail, loads) ==
    IF loads THEN [ model |-> "loaded", avail |-> TRUE ]
    ELSE [ model |-> "None", avail |-> FALSE ]

\* VoiceoverGenerator.__init__: the model held and the module flag afterwards
VoiceoverGenerator_init(avail, loads) ==
    IF avail
    THEN IF loads THEN [ model |-> "loaded", avail |-> avail ]
         ELSE [ model |-> "None", avail |-> FALSE ]
    ELSE [ model |-> "None", avail |-> avail ]

\* VisualGenerator.__init__
VisualGenerator_init(avail, loads) ==
    IF avail
    THEN IF loads THEN [ pipeline |-> "loaded", avail |-> avail ]
         ELSE [ pipeline |-> "None", avail |-> FALSE ]
    ELSE [ pipeline |-> "None", avail |-> avail ]

-----------------------------------------------------------------------------
(* Orchestrator: generate_video_from_script of app.py and of app_cli.py *)

Progress(pct) == [ sig |-> "progress_update", pct |-> pct, path |-> EmptyStr ]
Status == [ sig |-> "status_update", pct |-> -1, path |-> EmptyStr ]
Error == [ sig |-> "error_occurred", pct |-> -1, path |-> EmptyStr ]
Generated(p) == [ sig |-> "video_generated", pct |-> -1, path |-> p ]
BackendReady == [ sig |-> "backend_ready", pct |-> -1, path |-> EmptyStr ]

\* signals exist in the GUI backend only; the CLI prints
Emit(f, sofar, new) == IF f = "gui" THEN sofar \o new ELSE sofar

Call(fn, idx) == [ fn |-> fn, idx |-> idx ]

\* mutant: the scene share of the progress counts down
current_scene_progress_Countdown(idx, n) ==
    (((n - idx) * 100) \div (total_steps * n)) + (100 \div total_steps)

\* app.py: current_scene_progress
current_scene_progress(idx, n) ==
    ((idx * 100) \div (total_steps * n)) + (100 \div total_steps)

\* the audio half of the loop body: the generator's path, or the
\* orchestrator's own silent file when the generator returned nothing
AudioWithFallback(returned, idx) ==
    IF Falsy(returned)
    THEN LET p == Path("temp_assets", "silent_fallback", idx)
         IN  [ path |-> p, wrote |-> { << p, Wav(OrchestratorSilenceMs) >> } ]
    ELSE [ path |-> returned, wrote |-> { } ]

\* mutant: an empty path from the generator is treated as an error of the run
ImageWithFallback_Propagates(returned, idx, audio, fsys) ==
    [ raised |-> Falsy(returned), path |-> returned, wrote |-> { } ]

\* mutant: the generator's path is recorded as it is, empty or not
ImageWithFallback_NoPlaceholder(returned, idx, audio, fsys) ==
    [ raised |-> FALSE, path |-> returned, wrote |-> { } ]

\* mutant: one placeholder file serves every scene
ImageWithFallback_SharedPlaceholder(returned, idx, audio, fsys) ==
    IF Falsy(returned)
    THEN IF ~Exists(fsys, audio)
         THEN [ raised |-> TRUE, path |-> EmptyStr, wrote |-> { } ]
         ELSE LET p == Path("temp_assets", "black_placeholder", 0)
              IN  [ raised |-> FALSE, path |-> p,
                    wrote |-> { << p, Png(FrameWidth, FrameHeight, "black") >> } ]
    ELSE [ raised |-> FALSE, path |-> returned, wrote |-> { } ]

\* the image half of the loop body: the generator's path, or a black
\* placeholder frame; the placeholder branch first reads the scene's audio
ImageWithFallback(returned, idx, audio, fsys) ==
    IF Falsy(returned)
    THEN IF ~Exists(fsys, audio)
         THEN [ raised |-> TRUE, path |-> EmptyStr, wrote |-> { } ]
         ELSE LET p == Path("temp_assets", "black_placeholder", idx)
              IN  [ raised |-> FALSE, path |-> p,
                    wrote |-> { << p, Png(FrameWidth, FrameHeight, "black") >> } ]
    ELSE [ raised |-> FALSE, path |-> returned, wrote |-> { } ]

\* mutant: the check for an empty scene list is missing
NoScenes_Never(scenes) == FALSE

\* "if not processed_scenes": nothing to generate
NoScenes(scenes) == scenes = << >>

\* mutant: the loop is left one scene early
LoopHead_SkipsLast(idx, scenes) ==
    IF idx + 1 < Len(scenes) THEN "SceneAudio" ELSE "Assembling"

\* where a "for" over the scenes goes from index idx: into the body, or past
\* the loop when no scene is left
LoopHead(idx, scenes) == IF idx < Len(scenes) THEN "SceneAudio" ELSE "Assembling"

\* mutant: a scene whose image is the placeholder is not recorded
AppendAsset_SkipsPlaceholder(assets, image, audio) ==
    IF image[1] = "temp_assets" THEN assets
    ELSE Append(assets, [ image_path |-> image, audio_path |-> audio ])

\* scene_assets.append({...})
AppendAsset(assets, image, audio) ==
    Append(assets, [ image_path |-> image, audio_path |-> audio ])

\* mutant: the except clause resets the progress and reports nothing
ExceptNotes_ResetOnly == << Progress(0) >>

\* mutant: the except clause reports a status after the error
ExceptNotes_StatusAfterError == << Error, Status, Progress(0) >>

\* what the except clause of app.py emits: the error, then the progress reset
ExceptNotes == << Error, Progress(0) >>

\* mutant: app.py has no except clause either and the error leaves the call
ExceptionOutcome_Propagates(f) == "Raised"

\* where an exception raised inside generate_video_from_script takes the run:
\* the except clause of app.py ends it Failed; app_cli.py has no except clause
\* and the error leaves the call
ExceptionOutcome(f) == IF f = "gui" THEN "Failed" ELSE "Raised"

\* the except clause of app.py; app_cli.py has none and the error leaves the call
Unexpected(f) ==
    /\ notes' = Emit(f, notes, ExceptNotes)
    /\ ret' = None
    /\ pc' = ExceptionOutcome(f)

\* no window: the process has no GUI
NoWindow ==
    [ backend_initialized |-> FALSE, generate_video_btn |-> FALSE,
      worker_thread |-> "None", script_input |-> << >>, music_path_input |-> EmptyStr,
      workers |-> 0, started |-> 0, tts_inits |-> 0, image_inits |-> 0 ]

NoHist ==
    [ voice |-> << >>, visual |-> << >>, vengine |-> << >>, iengine |-> << >>,
      segmenter |-> "NotCalled" ]

Init ==
    /\ CHATTTERBOX_AVAILABLE \in BOOLEAN
    /\ VISUAL_GENERATOR_AVAILABLE \in BOOLEAN
    /\ apps = [ built |-> FALSE, vo_model |-> "None", vis_pipeline |-> "None",
                others |-> 0 ]
    /\ \E music \in BOOLEAN :
         fs = [ p \in AllPaths |->
                  IF p = BgMusicPath /\ music THEN Wav(4000) ELSE Absent ]
    /\ pc = "Idle"
    /\ front = "none"
    /\ inst = "none"
    /\ raw_script = << >>
    /\ background_music_path = None
    /\ processed_scenes = << >>
    /\ i = 0
    /\ audio_path = EmptyStr
    /\ scene_assets = << >>
    /\ notes = << >>
    /\ calls = << >>
    /\ hist = NoHist
    /\ ret = None
    /\ video = NoVideo
    /\ scene_data = << >>
    /\ window = NoWindow

\* FacelessVideoAppBackend.__init__ / FacelessVideoApp.__init__
Construct(vo_loads, vis_loads) ==
    /\ pc = "Idle"
    /\ ~apps.built
    /\ LET vo == VoiceoverGenerator_init(CHATTTERBOX_AVAILABLE, vo_loads)
           vis == VisualGenerator_init(VISUAL_GENERATOR_AVAILABLE, vis_loads)
       IN  /\ apps' = [ apps EXCEPT !.built = TRUE, !.vo_model = vo.model,
                                    !.vis_pipeline = vis.pipeline ]
           /\ CHATTTERBOX_AVAILABLE' = vo.avail
           /\ VISUAL_GENERATOR_AVAILABLE' = vis.avail
    /\ UNCHANGED window
    /\ UNCHANGED << fs, pc, front, inst, raw_script, background_music_path,
                    processed_scenes, i, audio_path, scene_assets, notes, calls, hist,
                    ret, video, scene_data >>

\* a further application object is constructed in the same process (each GUI
\* worker builds its own backend): only what its construction does to the
\* module flags is kept
ConstructOther(vo_loads, vis_loads) ==
    /\ pc = "Idle"
    /\ apps.built
    /\ apps.others < MaxOthers
    /\ LET vo == VoiceoverGenerator_init(CHATTTERBOX_AVAILABLE, vo_loads)
           vis == VisualGenerator_init(VISUAL_GENERATOR_AVAILABLE, vis_loads)
       IN  /\ apps' = [ apps EXCEPT !.others = @ + 1 ]
           /\ CHATTTERBOX_AVAILABLE' = vo.avail
           /\ VISUAL_GENERATOR_AVAILABLE' = vis.avail
    /\ UNCHANGED window
    /\ UNCHANGED << fs, pc, front, inst, raw_script, background_music_path,
                    processed_scenes, i, audio_path, scene_assets, notes, calls, hist,
                    ret, video, scene_data >>

\* entry of generate_video_from_script
StartRun(f, script, bgm) ==
    /\ pc = "Idle"
    /\ apps.built
    /\ inst' = "app"
    /\ front' = f
    /\ raw_script' = script
    /\ background_music_path' = bgm
    /\ notes' = Emit(f, notes, << Status >>)
    /\ pc' = "Segmenting"
    /\ UNCHANGED window
    /\ UNCHANGED << CHATTTERBOX_AVAILABLE, VISUAL_GENERATOR_AVAILABLE, apps, fs,
                    processed_scenes, i, audio_path, scene_assets, calls, hist, ret,
                    video, scene_data >>

\* mutant: the list of scene assets is kept from one call to the next
NewSceneAssets_KeepsPrevious == scene_assets

\* scene_assets = [] : every call starts its own list of scene assets
NewSceneAssets == << >>

\* step 1: process the script into scenes. processed_scenes is assigned only
\* when process_script returns, the list of scene assets and the loop index
\* only when there are scenes to process.
SegmentScript(raises) ==
    /\ pc = "Segmenting"
    /\ calls' = Append(calls, Call("process_script", 0))
    /\ IF raises
       THEN /\ notes' = Emit(front, notes, << Progress(0) >> \o ExceptNotes)
            /\ ret' = None
            /\ pc' = ExceptionOutcome(front)
            /\ UNCHANGED << processed_scenes, i, scene_assets >>
       ELSE LET scenes == process_script(raw_script)
            IN  /\ processed_scenes' = scenes
                /\ IF NoScenes(scenes)
                   THEN /\ notes' = Emit(front, notes, << Progress(0), Error >>)
                        /\ ret' = None
                        /\ pc' = "Failed"
                        /\ UNCHANGED << i, scene_assets >>
                   ELSE /\ notes' = Emit(front, notes,
                                         << Progress(0), Status,
                                            Progress(100 \div total_steps), Status >>
                                         \o IF LoopHead(0, scenes) = "Assembling"
                                            THEN << Progress(200 \div total_steps) >>
                                            ELSE << >>)
                        /\ pc' = LoopHead(0, scenes)
                        /\ i' = 0
                        /\ scene_assets' = NewSceneAssets
                        /\ UNCHANGED ret
    /\ hist' = [ hist EXCEPT !.segmenter = IF raises THEN "raised" ELSE "returned" ]
    /\ UNCHANGED window
    /\ UNCHANGED << CHATTTERBOX_AVAILABLE, VISUAL_GENERATOR_AVAILABLE, apps, fs, front,
                    inst, raw_script, background_music_path, audio_path, video,
                    scene_data >>

\* loop body, first half: voice-over of scene i
SceneAudio(engine) ==
    /\ pc = "SceneAudio"
    /\ LET r == generate_voiceover_for_scene(CHATTTERBOX_AVAILABLE, apps.vo_model,
                                             processed_scenes[i + 1], i, engine)
           a == AudioWithFallback(r.path, i)
       IN  /\ fs' = WriteAll(WriteAll(fs, r.wrote), a.wrote)
           /\ audio_path' = a.path
           /\ hist' = [ hist EXCEPT
                          !.voice = Append(@, r),
                          !.vengine = Append(@, IF r.called THEN engine ELSE NotCalled) ]
    /\ calls' = Append(calls, Call("generate_voiceover_for_scene", i))
    /\ notes' = Emit(front, notes,
                     << Progress(current_scene_progress(i, Len(processed_scenes))),
                        Status >>)
    /\ pc' = "SceneImage"
    /\ UNCHANGED window
    /\ UNCHANGED << CHATTTERBOX_AVAILABLE, VISUAL_GENERATOR_AVAILABLE, apps, front, inst,
                    raw_script, background_music_path, processed_scenes, i, scene_assets,
                    ret, video, scene_data >>

\* loop body, second half: visual of scene i, then the pair is recorded
SceneImage(engine) ==
    /\ pc = "SceneImage"
    /\ calls' = Append(calls, Call("generate_visual_for_scene", i))
    /\ LET r == generate_visual_for_scene(VISUAL_GENERATOR_AVAILABLE,
                                          apps.vis_pipeline,
                                          processed_scenes[i + 1], i, engine)
           fs1 == WriteAll(fs, r.wrote)
           g == ImageWithFallback(r.path, i, audio_path, fs1)
       IN  /\ hist' = [ hist EXCEPT
                          !.visual = Append(@, r),
                          !.iengine = Append(@, IF r.called THEN engine ELSE NotCalled) ]
           /\ IF g.raised
              THEN /\ fs' = fs1
                   /\ Unexpected(front)
                   /\ UNCHANGED << i, scene_assets >>
              ELSE /\ fs' = WriteAll(fs1, g.wrote)
                   /\ scene_assets' = AppendAsset(scene_assets, g.path, audio_path)
                   /\ i' = i + 1
                   /\ IF LoopHead(i + 1, processed_scenes) = "Assembling"
                      THEN /\ notes' = Emit(front, notes,
                                            << Status, Progress(200 \div total_steps) >>)
                           /\ pc' = "Assembling"
                      ELSE /\ notes' = Emit(front, notes, << Status >>)
                           /\ pc' = "SceneAudio"
                   /\ UNCHANGED ret
    /\ UNCHANGED window
    /\ UNCHANGED << CHATTTERBOX_AVAILABLE, VISUAL_GENERATOR_AVAILABLE, apps, front, inst,
                    raw_script, background_music_path, processed_scenes, audio_path,
                    video, scene_data >>

\* step 3: assemble the final video, then report
AssembleVideo(mix_raises, encode_raises) ==
    /\ pc = "Assembling"
    /\ calls' = Append(calls, Call("assemble_video", 0))
    /\ LET a == assemble_video(scene_assets, background_music_path, TimestampedName, fs,
                               mix_raises, encode_raises)
       IN  /\ fs' = WriteAll(fs, a.wrote)
           /\ video' = a.video
           /\ IF a.raised
              THEN /\ notes' = Emit(front, notes,
                                    << Status, Progress((200 \div total_steps) + 10) >>
                                    \o ExceptNotes)
                   /\ ret' = None
                   /\ pc' = ExceptionOutcome(front)
              ELSE IF ~Falsy(a.ret)
              THEN /\ notes' = Emit(front, notes,
                                    << Status, Progress((200 \div total_steps) + 10),
                                       Status, Status, Generated(a.ret),
                                       Status, Progress(100) >>)
                   /\ ret' = a.ret
                   /\ pc' = "Completed"
              ELSE /\ notes' = Emit(front, notes,
                                    << Status, Progress((200 \div total_steps) + 10),
                                       Error, Status, Progress(100) >>)
                   /\ ret' = a.ret
                   /\ pc' = "Failed"
    /\ UNCHANGED window
    /\ UNCHANGED << CHATTTERBOX_AVAILABLE, VISUAL_GENERATOR_AVAILABLE, apps, front, inst,
                    raw_script, background_music_path, processed_scenes, i, audio_path,
                    scene_assets, hist, scene_data >>

Next ==
    \/ \E vo_loads \in BOOLEAN, vis_loads \in BOOLEAN : Construct(vo_loads, vis_loads)
    \/ \E vo_loads \in BOOLEAN, vis_loads \in BOOLEAN :
         ConstructOther(vo_loads, vis_loads)
    \/ \E f \in { "gui", "cli" }, script \in Scripts, bgm \in { None, BgMusicPath } :
         StartRun(f, script, bgm)
    \/ \E raises \in BOOLEAN : SegmentScript(raises)
    \/ \E engine \in EngineOutcomes : SceneAudio(engine)
    \/ \E engine \in ImageOutcomes : SceneImage(engine)
    \/ \E mix_raises \in BOOLEAN, encode_raises \in BOOLEAN :
         AssembleVideo(mix_raises, encode_raises)

Spec == Init /\ [][Next]_vars

\* a step of the thread that executes generate_video_from_script
RunStep ==
    \/ \E raises \in BOOLEAN : SegmentScript(raises)
    \/ \E engine \in EngineOutcomes : SceneAudio(engine)
    \/ \E engine \in ImageOutcomes : SceneImage(engine)
    \/ \E mix_raises \in BOOLEAN, encode_raises \in BOOLEAN :
         AssembleVideo(mix_raises, encode_raises)

\* scripts of no scene, of one scene and of two scenes
FairScripts ==
    { << >>,
      << << "#", "a", " ", "\n", "*", "b", "*" >> >>,
      << << "#", "a", " ", "\n", "*", "b", "*" >>, << "*", " ", "_" >> >> }

\* runs of the backend of app.py
NextFair ==
    \/ \E vo_loads \in BOOLEAN, vis_loads \in BOOLEAN : Construct(vo_loads, vis_loads)
    \/ \E script \in FairScripts, bgm \in { None, BgMusicPath } :
         StartRun("gui", script, bgm)
    \/ RunStep

\* the runs of the backend with the scheduling of the thread: its code is
\* sequential and, every call it makes returning or raising, it takes its
\* next step
SpecFair == Init /\ [][NextFair]_vars /\ WF_vars(RunStep)

-----------------------------------------------------------------------------
(* Direct calls of the assembler *)

Audio0 == Path("generated_audio", "scene", 0)
Audio1 == Path("generated_audio", "scene_error", 1)
Image0 == Path("generated_images", "scene", 0)
Image1 == Path("temp_assets", "black_placeholder", 1)

\* the entries a caller may pass: paths of files that exist, paths of files
\* that do not, and no path at all
SceneDataEntries ==
    [ image_path : { EmptyStr, Image0, Image1, MissingPath },
      audio_path : { None, Audio0, Audio1, MissingPath } ]

SceneDataLists == UNION { [ 1 .. n -> SceneDataEntries ] : n \in 0 .. MaxScenes }

InitAssembler ==
    /\ CHATTTERBOX_AVAILABLE = FALSE
    /\ VISUAL_GENERATOR_AVAILABLE = FALSE
    /\ apps = [ built |-> FALSE, vo_model |-> "None", vis_pipeline |-> "None",
                others |-> 0 ]
    /\ \E bgms \in { 0, 4000, 30000 }, silent \in BOOLEAN :
         fs = [ p \in AllPaths |->
                  IF p = Audio0 THEN Wav(4000)
                  ELSE IF p = Audio1 THEN Wav(SynthesisErrorSilenceMs)
                  ELSE IF p = Image0 THEN Png(512, 512, "generated")
                  ELSE IF p = Image1 THEN Png(FrameWidth, FrameHeight, "black")
                  ELSE IF p = BgMusicPath /\ bgms > 0 THEN Wav(bgms)
                  ELSE IF p = SilentWavPath /\ silent THEN Wav(500)
                  ELSE Absent ]
    /\ pc = "Direct"
    /\ front = "none"
    /\ inst = "none"
    /\ raw_script = << >>
    /\ background_music_path = None
    /\ processed_scenes = << >>
    /\ i = 0
    /\ audio_path = EmptyStr
    /\ scene_assets = << >>
    /\ notes = << >>
    /\ calls = << >>
    /\ hist = NoHist
    /\ ret = None
    /\ video = NoVideo
    /\ scene_data \in SceneDataLists
    /\ window = NoWindow

\* VideoAssembler.assemble_video called with scene_data, the encoder working
DirectAssemble(bgm, output_filename, mix_raises) ==
    /\ pc = "Direct"
    /\ background_music_path' = bgm
    /\ calls' = Append(calls, Call("assemble_video", 0))
    /\ LET a == assemble_video(scene_data, bgm, output_filename, fs, mix_raises, FALSE)
       IN  /\ fs' = WriteAll(fs, a.wrote)
           /\ video' = a.video
           /\ ret' = a.ret
           /\ pc' = IF a.raised THEN "Raised" ELSE "Returned"
    /\ UNCHANGED window
    /\ UNCHANGED << CHATTTERBOX_AVAILABLE, VISUAL_GENERATOR_AVAILABLE, apps, front, inst,
                    raw_script, processed_scenes, i, audio_path, scene_assets, notes,
                    hist, scene_data >>

NextAssembler ==
    \E bgm \in { None, BgMusicPath }, output_filename \in { DefaultName, TimestampedName },
       mix_raises \in BOOLEAN :
        DirectAssemble(bgm, output_filename, mix_raises)

SpecAssembler == InitAssembler /\ [][NextAssembler]_vars

-----------------------------------------------------------------------------
(* Direct, repeated calls of the two generators *)

\* a generator object and its module flag: engine loaded and available, engine
\* loaded but the flag taken down by another object, engine not loaded
GeneratorStates ==
    { [ avail |-> TRUE, engine |-> "loaded" ],
      [ avail |-> FALSE, engine |-> "loaded" ],
      [ avail |-> FALSE, engine |-> "None" ] }

\* scene indices and scene texts the callers pass
RerunIndices == { 0, 1 }
SceneTexts == { << "a", " ", "*", "b", "*" >>, << "*", " ", "_" >> }

InitGenerators ==
    /\ \E vo \in GeneratorStates, vis \in GeneratorStates :
         /\ CHATTTERBOX_AVAILABLE = vo.avail
         /\ VISUAL_GENERATOR_AVAILABLE = vis.avail
         /\ apps = [ built |-> TRUE, vo_model |-> vo.engine,
                     vis_pipeline |-> vis.engine, others |-> 0 ]
    /\ fs = [ p \in AllPaths |-> Absent ]
    /\ pc = "Generators"
    /\ front = "none"
    /\ inst = "none"
    /\ raw_script = << >>
    /\ background_music_path = None
    /\ processed_scenes = << >>
    /\ i = 0
    /\ audio_path = EmptyStr
    /\ scene_assets = << >>
    /\ notes = << >>
    /\ calls = << >>
    /\ hist = NoHist
    /\ ret = None
    /\ video = NoVideo
    /\ scene_data = << >>
    /\ window = NoWindow

\* VoiceoverGenerator.generate_voiceover_for_scene(scene_text, scene_index)
DirectVoiceover(scene_text, scene_index, engine) ==
    /\ pc = "Generators"
    /\ LET r == generate_voiceover_for_scene(CHATTTERBOX_AVAILABLE, apps.vo_model,
                                             scene_text, scene_index, engine)
       IN  /\ fs' = WriteAll(fs, r.wrote)
           /\ ret' = r.path
    /\ i' = scene_index
    /\ UNCHANGED window
    /\ UNCHANGED << CHATTTERBOX_AVAILABLE, VISUAL_GENERATOR_AVAILABLE, apps, pc, front,
                    inst, raw_script, background_music_path, processed_scenes,
                    audio_path, scene_assets, notes, calls, hist, video, scene_data >>

\* VisualGenerator.generate_visual_for_scene(scene_text, scene_index)
DirectVisual(scene_text, scene_index, engine) ==
    /\ pc = "Generators"
    /\ LET r == generate_visual_for_scene(VISUAL_GENERATOR_AVAILABLE, apps.vis_pipeline,
                                          scene_text, scene_index, engine)
       IN  /\ fs' = WriteAll(fs, r.wrote)
           /\ ret' = r.path
    /\ i' = scene_index
    /\ UNCHANGED window
    /\ UNCHANGED << CHATTTERBOX_AVAILABLE, VISUAL_GENERATOR_AVAILABLE, apps, pc, front,
                    inst, raw_script, background_music_path, processed_scenes,
                    audio_path, scene_assets, notes, calls, hist, video, scene_data >>

NextGenerators ==
    \/ \E scene_text \in SceneTexts, scene_index \in RerunIndices,
          engine \in EngineOutcomes :
         DirectVoiceover(scene_text, scene_index, engine)
    \/ \E scene_text \in SceneTexts, scene_index \in RerunIndices,
          engine \in ImageOutcomes :
         DirectVisual(scene_text, scene_index, engine)

SpecGenerators == InitGenerators /\ [][NextGenerators]_vars

-----------------------------------------------------------------------------
(* Direct calls of the segmenter: SpecSegmenter *)

\* most paragraphs a script is made of
MaxParagraphs == 3

\* a paragraph of n words "a"
WordsParagraph(n) == [ k \in 1 .. 2 * n - 1 |-> IF k % 2 = 1 THEN "a" ELSE " " ]

\* paragraphs as the user types them: short and long scenes opened by a
\* marker, short and long narration, narration with spaces around it, a blank
\* paragraph, a long sentence without a full stop
TypedParagraphs ==
    { << SceneWord, " ", "1:", " ", "a" >>,
      << SceneWord, "\n", "2:", " ", "b." >>,
      << SceneWord, " ", "3:", " ", "b.", " ", "b.", " ", "b." >>,
      << "a", " ", "b." >>,
      << " ", "a", " " >>,
      << " " >>,
      << "b.", " ", "b.", "\n", "b." >>,
      WordsParagraph(ShortSceneWords) }

\* what separates two paragraphs typed one after the other: blank lines in the
\* three line-ending conventions, and a single line break, which separates
\* nothing
TypedBreaks ==
    { << "\n", "\n" >>, << "\n", "\n", "\n" >>, << "\r", "\n", "\r", "\n" >>,
      << "\r", "\r" >>, << "\n" >> }

RECURSIVE TypedScript(_, _)
TypedScript(ps, break) ==
    IF ps = << >> THEN << >>
    ELSE IF Len(ps) = 1 THEN ps[1]
    ELSE ps[1] \o break \o TypedScript(Tail(ps), break)

SegmenterScripts ==
    { TypedScript(ps, break) :
        ps \in UNION { [ 1 .. n -> TypedParagraphs ] : n \in 0 .. MaxParagraphs },
        break \in TypedBreaks }

InitSegmenter ==
    /\ raw_script \in SegmenterScripts
    /\ pc = "Script"
    /\ processed_scenes = << >>
    /\ CHATTTERBOX_AVAILABLE = FALSE
    /\ VISUAL_GENERATOR_AVAILABLE = FALSE
    /\ apps = [ built |-> FALSE, vo_model |-> "None", vis_pipeline |-> "None",
                others |-> 0 ]
    /\ fs = [ p \in AllPaths |-> Absent ]
    /\ front = "none"
    /\ inst = "none"
    /\ background_music_path = None
    /\ i = 0
    /\ audio_path = EmptyStr
    /\ scene_assets = << >>
    /\ notes = << >>
    /\ calls = << >>
    /\ hist = NoHist
    /\ ret = None
    /\ video = NoVideo
    /\ scene_data = << >>
    /\ window = NoWindow

\* ScriptProcessor.split_script_into_scenes(script_text)
DirectSplit ==
    /\ pc = "Script"
    /\ processed_scenes' = split_script_into_scenes(raw_script)
    /\ pc' = "Scenes"
    /\ UNCHANGED window
    /\ UNCHANGED << CHATTTERBOX_AVAILABLE, VISUAL_GENERATOR_AVAILABLE, apps, fs, front,
                    inst, raw_script, background_music_path, i, audio_path,
                    scene_assets, notes, calls, hist, ret, video, scene_data >>

NextSegmenter == DirectSplit

SpecSegmenter == InitSegmenter /\ [][NextSegmenter]_vars

-----------------------------------------------------------------------------
(* The window of app.py and its worker thread *)

\* str.strip() of the text of the script box, the text being a sequence of
\* paragraphs: blank paragraphs at either end go, the ends are trimmed
RECURSIVE DropBlankFront(_)
DropBlankFront(t) ==
    IF t # << >> /\ Strip(Head(t)) = << >> THEN DropBlankFront(Tail(t)) ELSE t
RECURSIVE DropBlankBack(_)
DropBlankBack(t) ==
    IF t # << >> /\ Strip(t[Len(t)]) = << >>
    THEN DropBlankBack(SubSeq(t, 1, Len(t) - 1)) ELSE t
StripScript(t) ==
    LET u == DropBlankBack(DropBlankFront(t))
    IN  [ k \in 1 .. Len(u) |->
            IF k = 1 /\ k = Len(u) THEN Strip(u[k])
            ELSE IF k = 1 THEN LStrip(u[k])
            ELSE IF k = Len(u) THEN RStrip(u[k])
            ELSE u[k] ]

\* the slot set_backend_ready(ready)
set_backend_ready(w, ready) ==
    [ w EXCEPT !.backend_initialized = ready, !.generate_video_btn = ready ]

\* backend_ready.emit(ready): the slots connected to the signal at the time of
\* the emission run; with none connected the emission is lost
EmitBackendReady(w, connected, ready) ==
    IF connected THEN set_backend_ready(w, ready) ELSE w

\* FacelessVideoGUI.init_backend: the backend is constructed, and its
\* constructor emits backend_ready; only then is set_backend_ready connected
\* to the signal
init_backend(w, ready) == EmitBackendReady(w, FALSE, ready)

\* FacelessVideoGUI.__init__ with init_ui and init_backend: the window's own
\* backend is constructed, which loads each engine whose flag is up. The
\* constructor of the backend catches no error of the generators (they catch
\* their own) and emits backend_ready(True).
FacelessVideoGUI_init(vo_avail, vis_avail) ==
    init_backend([ backend_initialized |-> FALSE, generate_video_btn |-> FALSE,
                   worker_thread |-> "None", script_input |-> << >>,
                   music_path_input |-> EmptyStr, workers |-> 0, started |-> 0,
                   tts_inits |-> IF vo_avail THEN 1 ELSE 0,
                   image_inits |-> IF vis_avail THEN 1 ELSE 0 ],
                 TRUE)

\* mutant: the Generate button stays enabled while the worker runs
start_video_generation_ButtonStaysEnabled(w, fsys) ==
    LET text == StripScript(w.script_input)
        path == w.music_path_input
    IN  IF ~w.backend_initialized THEN [ accepted |-> FALSE, window |-> w,
                                         raw_script |-> << >>, bgm |-> None ]
        ELSE IF text = << >> THEN [ accepted |-> FALSE, window |-> w,
                                    raw_script |-> << >>, bgm |-> None ]
        ELSE IF path # EmptyStr /\ ~Exists(fsys, path)
        THEN [ accepted |-> FALSE, window |-> w, raw_script |-> << >>, bgm |-> None ]
        ELSE [ accepted |-> TRUE,
               window |-> [ w EXCEPT !.worker_thread = "running",
                                     !.workers = @ + 1, !.started = @ + 1 ],
               raw_script |-> text,
               bgm |-> IF path = EmptyStr THEN None ELSE path ]

\* start_video_generation, the slot of the Generate button: the three early
\* returns, then the button is disabled and a worker is created and started.
\* workers counts the workers started whose finished handler has not run.
start_video_generation(w, fsys) ==
    LET text == StripScript(w.script_input)
        path == w.music_path_input
    IN  IF ~w.backend_initialized THEN [ accepted |-> FALSE, window |-> w,
                                         raw_script |-> << >>, bgm |-> None ]
        ELSE IF text = << >> THEN [ accepted |-> FALSE, window |-> w,
                                    raw_script |-> << >>, bgm |-> None ]
        ELSE IF path # EmptyStr /\ ~Exists(fsys, path)
        THEN [ accepted |-> FALSE, window |-> w, raw_script |-> << >>, bgm |-> None ]
        ELSE [ accepted |-> TRUE,
               window |-> [ w EXCEPT !.generate_video_btn = FALSE,
                                     !.worker_thread = "running",
                                     !.workers = @ + 1, !.started = @ + 1 ],
               raw_script |-> text,
               bgm |-> IF path = EmptyStr THEN None ELSE path ]

\* the slot on_worker_finished
on_worker_finished(w) ==
    [ w EXCEPT !.generate_video_btn = w.backend_initialized,
               !.worker_thread = "None", !.workers = @ - 1 ]

\* what the user may have in the script box and in the music path box
GuiTexts ==
    { << >>, << << " ", "\n" >> >>, << << "#", "a", " ", "\n", "*", "b", "*" >> >> }
GuiMusicPaths == { EmptyStr, BgMusicPath, MissingPath }

\* The window after its construction and after set_backend_ready(ready) has
\* run. Construction alone never runs the slot (see FacelessVideoGUI_init)
\* and from the window it leaves no handler below can start a worker; the
\* handlers are therefore examined from the window as the slot leaves it, for
\* both values of ready.
InitGui ==
    /\ \E vo_avail \in BOOLEAN, vis_avail \in BOOLEAN,
          vo_loads \in BOOLEAN, vis_loads \in BOOLEAN, ready \in BOOLEAN :
         LET vo == VoiceoverGenerator_init(vo_avail, vo_loads)
             vis == VisualGenerator_init(vis_avail, vis_loads)
         IN  /\ CHATTTERBOX_AVAILABLE = vo.avail
             /\ VISUAL_GENERATOR_AVAILABLE = vis.avail
             /\ window = set_backend_ready(FacelessVideoGUI_init(vo_avail, vis_avail),
                                           ready)
    /\ apps = [ built |-> FALSE, vo_model |-> "None", vis_pipeline |-> "None",
                others |-> 0 ]
    /\ \E music \in BOOLEAN :
         fs = [ p \in AllPaths |->
                  IF p = BgMusicPath /\ music THEN Wav(4000) ELSE Absent ]
    /\ pc = "Idle"
    /\ front = "none"
    /\ inst = "none"
    /\ raw_script = << >>
    /\ background_music_path = None
    /\ processed_scenes = << >>
    /\ i = 0
    /\ audio_path = EmptyStr
    /\ scene_assets = << >>
    /\ notes = << >>
    /\ calls = << >>
    /\ hist = NoHist
    /\ ret = None
    /\ video = NoVideo
    /\ scene_data = << >>

\* the user edits the script box
EditScript(text) ==
    /\ text # window.script_input
    /\ window' = [ window EXCEPT !.script_input = text ]
    /\ UNCHANGED << CHATTTERBOX_AVAILABLE, VISUAL_GENERATOR_AVAILABLE, apps, fs, pc,
                    front, inst, raw_script, background_music_path, processed_scenes, i,
                    audio_path, scene_assets, notes, calls, hist, ret, video,
                    scene_data >>

\* the user edits the music path box, by hand or through browse_music
EditMusicPath(path) ==
    /\ path # window.music_path_input
    /\ window' = [ window EXCEPT !.music_path_input = path ]
    /\ UNCHANGED << CHATTTERBOX_AVAILABLE, VISUAL_GENERATOR_AVAILABLE, apps, fs, pc,
                    front, inst, raw_script, background_music_path, processed_scenes, i,
                    audio_path, scene_assets, notes, calls, hist, ret, video,
                    scene_data >>

\* a click on the Generate button, which Qt delivers only while the button is
\* enabled: start_video_generation. When it goes through, the new worker's
\* constructor builds a backend of its own, both generators included, and the
\* thread is started. What the worker's signals carry and what its call
\* returns are recorded anew; the scenes, the loop index, the audio path and
\* the list of scene assets keep what the previous call left until the new
\* call assigns them.
ClickGenerate(vo_loads, vis_loads) ==
    /\ window.generate_video_btn
    /\ window.started < MaxRuns
    /\ LET r == start_video_generation(window, fs)
           vo == VoiceoverGenerator_init(CHATTTERBOX_AVAILABLE, vo_loads)
           vis == VisualGenerator_init(VISUAL_GENERATOR_AVAILABLE, vis_loads)
       IN  IF r.accepted
           THEN /\ window' = [ r.window EXCEPT
                                 !.tts_inits =
                                    @ + (IF CHATTTERBOX_AVAILABLE THEN 1 ELSE 0),
                                 !.image_inits =
                                    @ + (IF VISUAL_GENERATOR_AVAILABLE THEN 1 ELSE 0) ]
                /\ apps' = [ apps EXCEPT !.built = TRUE, !.vo_model = vo.model,
                                         !.vis_pipeline = vis.pipeline ]
                /\ CHATTTERBOX_AVAILABLE' = vo.avail
                /\ VISUAL_GENERATOR_AVAILABLE' = vis.avail
                /\ raw_script' = r.raw_script
                /\ background_music_path' = r.bgm
                /\ pc' = "Idle"
                /\ front' = "gui"
                /\ inst' = "none"
                /\ notes' = << >>
                /\ calls' = << >>
                /\ hist' = NoHist
                /\ ret' = None
                /\ video' = NoVideo
                /\ UNCHANGED << fs, scene_data, processed_scenes, i, audio_path,
                                scene_assets >>
           ELSE UNCHANGED vars

\* VideoGenerationWorker.run: the thread enters generate_video_from_script
\* with the script and the music path the worker was given
WorkerRun ==
    /\ window.worker_thread = "running"
    /\ StartRun("gui", raw_script, background_music_path)

\* the worker thread has left run(): its finished signal reaches the window
WorkerFinished ==
    /\ window.worker_thread = "running"
    /\ pc \in { "Completed", "Failed" }
    /\ window' = on_worker_finished(window)
    /\ UNCHANGED << CHATTTERBOX_AVAILABLE, VISUAL_GENERATOR_AVAILABLE, apps, fs, pc,
                    front, inst, raw_script, background_music_path, processed_scenes, i,
                    audio_path, scene_assets, notes, calls, hist, ret, video,
                    scene_data >>

NextGui ==
    \/ \E text \in GuiTexts : EditScript(text)
    \/ \E path \in GuiMusicPaths : EditMusicPath(path)
    \/ \E vo_loads \in BOOLEAN, vis_loads \in BOOLEAN : ClickGenerate(vo_loads, vis_loads)
    \/ WorkerRun
    \/ \E raises \in BOOLEAN : SegmentScript(raises)
    \/ \E engine \in EngineOutcomes : SceneAudio(engine)
    \/ \E engine \in ImageOutcomes : SceneImage(engine)
    \/ \E mix_raises \in BOOLEAN, encode_raises \in BOOLEAN :
         AssembleVideo(mix_raises, encode_raises)
    \/ WorkerFinished

SpecGui == InitGui /\ [][NextGui]_vars

-----------------------------------------------------------------------------
(* Start-up of the GUI: SpecStartup *)

\* the process before app.py's main block has built the window
InitStartup ==
    /\ CHATTTERBOX_AVAILABLE \in BOOLEAN
    /\ VISUAL_GENERATOR_AVAILABLE \in BOOLEAN
    /\ apps = [ built |-> FALSE, vo_model |-> "None", vis_pipeline |-> "None",
                others |-> 0 ]
    /\ \E music \in BOOLEAN :
         fs = [ p \in AllPaths |->
                  IF p = BgMusicPath /\ music THEN Wav(4000) ELSE Absent ]
    /\ pc = "Startup"
    /\ front = "none"
    /\ inst = "none"
    /\ raw_script = << >>
    /\ background_music_path = None
    /\ processed_scenes = << >>
    /\ i = 0
    /\ audio_path = EmptyStr
    /\ scene_assets = << >>
    /\ notes = << >>
    /\ calls = << >>
    /\ hist = NoHist
    /\ ret = None
    /\ video = NoVideo
    /\ scene_data = << >>
    /\ window = NoWindow

\* window = FacelessVideoGUI(): the window and its own backend are built; the
\* backend's constructor emits status_update and backend_ready(True)
Launch(vo_loads, vis_loads) ==
    /\ pc = "Startup"
    /\ LET vo == VoiceoverGenerator_init(CHATTTERBOX_AVAILABLE, vo_loads)
           vis == VisualGenerator_init(VISUAL_GENERATOR_AVAILABLE, vis_loads)
       IN  /\ apps' = [ apps EXCEPT !.built = TRUE, !.vo_model = vo.model,
                                    !.vis_pipeline = vis.pipeline ]
           /\ CHATTTERBOX_AVAILABLE' = vo.avail
           /\ VISUAL_GENERATOR_AVAILABLE' = vis.avail
    /\ window' = FacelessVideoGUI_init(CHATTTERBOX_AVAILABLE, VISUAL_GENERATOR_AVAILABLE)
    /\ notes' = << Status, BackendReady >>
    /\ front' = "gui"
    /\ pc' = "Idle"
    /\ UNCHANGED << fs, inst, raw_script, background_music_path, processed_scenes, i,
                    audio_path, scene_assets, calls, hist, ret, video, scene_data >>

\* what the user can do in the window as construction leaves it: the Generate
\* button is disabled and delivers no click
NextStartup ==
    \/ \E vo_loads \in BOOLEAN, vis_loads \in BOOLEAN : Launch(vo_loads, vis_loads)
    \/ \E text \in GuiTexts : pc = "Idle" /\ EditScript(text)
    \/ \E path \in GuiMusicPaths : pc = "Idle" /\ EditMusicPath(path)

SpecStartup == InitStartup /\ [][NextStartup]_vars

-----------------------------------------------------------------------------
(* Properties of the orchestrated run, checked under Spec *)

\* the scene loop is over: assembly is about to be called or has been called
LoopEnded ==
    pc = "Assembling" \/ \E n \in 1 .. Len(calls) : calls[n].fn = "assemble_video"

\* the voice engine is unavailable to the application object of the run
VoiceUnavailable == ~CHATTTERBOX_AVAILABLE \/ apps.vo_model = "None"
ImageUnavailable == ~VISUAL_GENERATOR_AVAILABLE \/ apps.vis_pipeline = "None"

\* scene k (1-based) got no synthesised audio / no synthesised image
VoiceFailed(k) ==
    VoiceUnavailable \/ CleanedText(processed_scenes[k]) = << >> \/ hist.vengine[k].raises
ImageFailed(k) == ImageUnavailable \/ hist.iengine[k].raises

\* the pair the loop body produces for scene k from what the generators returned
ProducedAudio(k) ==
    IF Falsy(hist.voice[k].path) THEN Path("temp_assets", "silent_fallback", k - 1)
    ELSE hist.voice[k].path
ProducedImage(k) ==
    IF Falsy(hist.visual[k].path) THEN Path("temp_assets", "black_placeholder", k - 1)
    ELSE hist.visual[k].path

\* C1: when the scene loop of a run with N >= 1 scenes has ended, scene_assets
\* holds exactly N entries and entry k is the image/audio pair produced for
\* scene k, both paths carrying the index of that scene, whichever synthesis
\* calls failed; while the loop runs the list holds one entry per finished scene.
C1_SceneAssetsComplete ==
    /\ pc \in { "SceneAudio", "SceneImage" } => Len(scene_assets) = i
    /\ LoopEnded =>
         /\ Len(scene_assets) = Len(processed_scenes)
         /\ \A k \in 1 .. Len(processed_scenes) :
              /\ scene_assets[k] = [ image_path |-> ProducedImage(k),
                                     audio_path |-> ProducedAudio(k) ]
              /\ scene_assets[k].image_path[3] = k - 1
              /\ scene_assets[k].audio_path[3] = k - 1

\* a run of two or more scenes reached assembly although the first scene's
\* synthesis raised and the second scene's image failed
C1_Witness ==
    /\ pc = "Assembling"
    /\ Len(processed_scenes) >= 2
    /\ hist.vengine[1].raises
    /\ ImageFailed(2)
    /\ ~ImageFailed(1)

\* segmentation returned and yielded no scene
ZeroScenes == hist.segmenter = "returned" /\ processed_scenes = << >>

GeneratedDirs == { "generated_audio", "generated_images", "temp_assets", "final_videos" }

\* C2: a run whose segmentation yields zero scenes ends Failed and returns None,
\* in the GUI backend with one error signal as its last signal and no completion
\* signal; process_script is the only component called and no asset or video
\* file is written.
C2_ZeroScenesFails ==
    ZeroScenes =>
        /\ pc = "Failed"
        /\ ret = None
        /\ calls = << Call("process_script", 0) >>
        /\ front = "gui" =>
             /\ notes[Len(notes)] = Error
             /\ Cardinality({ n \in 1 .. Len(notes) : notes[n].sig = "error_occurred" }) = 1
             /\ \A n \in 1 .. Len(notes) : notes[n].sig # "video_generated"
        /\ \A p \in AllPaths : p[1] \in GeneratedDirs => ~Exists(fs, p)

\* the GUI backend ran on a whitespace-only script of two paragraphs
C2_Witness ==
    /\ ZeroScenes
    /\ front = "gui"
    /\ Len(raw_script) = 2

SilenceLengths == { EmptyTextSilenceMs, UnavailableSilenceMs, SynthesisErrorSilenceMs }

\* C3: no failure of a scene's audio or image synthesis ends the run: a run
\* ends Failed (or with an error leaving the call) only at segmentation or at
\* assembly, never inside the scene loop, and when assembly is reached every
\* scene whose synthesis failed has a fallback file in its place.
C3_SceneFailuresAbsorbed ==
    /\ pc \in { "Failed", "Raised" } =>
         calls = << Call("process_script", 0) >> \/ LoopEnded
    /\ LoopEnded =>
         \A k \in 1 .. Len(processed_scenes) :
            /\ VoiceFailed(k) =>
                 /\ Exists(fs, scene_assets[k].audio_path)
                 /\ fs[scene_assets[k].audio_path].kind = "wav"
                 /\ fs[scene_assets[k].audio_path].ms \in SilenceLengths
            /\ ImageFailed(k) =>
                 /\ Exists(fs, scene_assets[k].image_path)
                 /\ fs[scene_assets[k].image_path].look = "black"

\* assembly was reached by a run in which every synthesis call failed: empty
\* text for the first scene, a raising TTS engine for the second, a raising
\* image engine for both
C3_Witness ==
    /\ pc = "Assembling"
    /\ Len(processed_scenes) >= 2
    /\ ~VoiceUnavailable
    /\ CleanedText(processed_scenes[1]) = << >>
    /\ hist.vengine[2].raises
    /\ hist.iengine[1].raises
    /\ hist.iengine[2].raises

\* C4: every call of generate_voiceover_for_scene returned a non-empty path,
\* indexed by the scene, of a wav file that this call wrote and that is on disk
\* with the content written, whatever the flag, the model, the text and the
\* engine did.
C4_VoiceoverReturnsWrittenFile ==
    \A k \in 1 .. Len(hist.voice) :
        LET r == hist.voice[k]
        IN  /\ ~Falsy(r.path)
            /\ r.path[1] = "generated_audio"
            /\ r.path[3] = k - 1
            /\ Cardinality(r.wrote) = 1
            /\ \A wr \in r.wrote :
                 /\ wr[1] = r.path
                 /\ wr[2].kind = "wav"
                 /\ wr[2].ms > 0
                 /\ Exists(fs, r.path)
                 /\ fs[r.path] = wr[2]

\* two calls have returned in a process where the flag is down although the
\* object's own model loaded
C4_Witness ==
    /\ pc = "SceneImage"
    /\ Len(hist.voice) = 2
    /\ ~CHATTTERBOX_AVAILABLE
    /\ apps.vo_model = "loaded"

\* length (ms) of the audio file returned for scene k
ReturnedMs(k) == fs[hist.voice[k].path].ms

\* C5 as claimed: 1 s whenever the text reduces to empty, 2 s whenever the
\* engine is unavailable, 3 s whenever synthesis raises, for every combination
\* of text and engine state.
C5_AsClaimed ==
    \A k \in 1 .. Len(hist.voice) :
        /\ CleanedText(processed_scenes[k]) = << >> => ReturnedMs(k) = 1000
        /\ VoiceUnavailable => ReturnedMs(k) = 2000
        /\ hist.vengine[k].raises => ReturnedMs(k) = 3000

\* C5, amended: the fallback is 2 s whenever the engine is unavailable,
\* whatever the text; 1 s whenever the engine is available and the text
\* reduces to empty; 3 s whenever the engine is available, the text is not
\* empty and synthesis raises; with the engine unavailable every audio asset of
\* the run is a 2 s silence.
C5_FallbackLengthByClass ==
    /\ \A k \in 1 .. Len(hist.voice) :
         /\ Exists(fs, hist.voice[k].path)
         /\ VoiceUnavailable => ReturnedMs(k) = 2000
         /\ ~VoiceUnavailable /\ CleanedText(processed_scenes[k]) = << >> =>
              ReturnedMs(k) = 1000
         /\ ~VoiceUnavailable /\ CleanedText(processed_scenes[k]) # << >>
              /\ hist.vengine[k].raises => ReturnedMs(k) = 3000
    /\ VoiceUnavailable =>
         \A k \in 1 .. Len(scene_assets) :
            /\ Exists(fs, scene_assets[k].audio_path)
            /\ fs[scene_assets[k].audio_path] = Wav(2000)

\* the engine was unavailable for a whole run of two scenes, the first with a
\* text that reduces to empty and the second with narration
C5_Witness ==
    /\ LoopEnded
    /\ VoiceUnavailable
    /\ Len(processed_scenes) >= 2
    /\ CleanedText(processed_scenes[1]) = << >>
    /\ CleanedText(processed_scenes[2]) # << >>

\* C6: whenever the image engine is unavailable or raises for scene k the run
\* goes on and the image recorded for it is the black 1920x1080 placeholder
\* file indexed by the scene; every visual call is followed by a recorded pair
\* and every recorded pair has a non-empty image path.
C6_ImagePlaceholder ==
    /\ Len(scene_assets) = Len(hist.visual)
    /\ \A k \in 1 .. Len(scene_assets) :
         /\ ~Falsy(scene_assets[k].image_path)
         /\ ImageFailed(k) =>
              /\ scene_assets[k].image_path = Path("temp_assets", "black_placeholder", k - 1)
              /\ fs[scene_assets[k].image_path] = Png(1920, 1080, "black")

\* a run completed in which the image engine raised for the first scene and
\* produced an image for the second
C6_Witness ==
    /\ pc = "Completed"
    /\ Len(scene_assets) >= 2
    /\ hist.iengine[1].raises
    /\ ~ImageFailed(2)

-----------------------------------------------------------------------------
(* Properties of assemble_video, checked under SpecAssembler *)

CallEnded == pc \in { "Returned", "Raised" }

ImageMissing(k) ==
    Falsy(scene_data[k].image_path) \/ ~Exists(fs, scene_data[k].image_path)
AudioMissing(k) ==
    Falsy(scene_data[k].audio_path) \/ ~Exists(fs, scene_data[k].audio_path)

\* the audio file segment k is to play: the asset's, or silent.wav in its place
AudioOf(k) == IF AudioMissing(k) THEN SilentWavPath ELSE scene_data[k].audio_path

RECURSIVE AudioMsUpTo(_)
AudioMsUpTo(k) == IF k = 0 THEN 0 ELSE AudioMsUpTo(k - 1) + fs[AudioOf(k)].ms

FinalPaths == { p \in AllPaths : p[1] = "final_videos" }

\* C7 as claimed: assemble_video builds exactly one clip per entry of its
\* input, in input order, segment k using the image and the audio of asset k,
\* entries with a missing image or audio included.
C7_OneClipPerEntry ==
    CallEnded =>
        /\ Len(video.segments) = Len(scene_data)
        /\ \A k \in 1 .. Len(scene_data) :
             /\ video.segments[k].audio = AudioOf(k)
             /\ video.segments[k].image.path =
                  IF ImageMissing(k) THEN EmptyStr ELSE scene_data[k].image_path

\* C8: when assemble_video has assembled a video from a non-empty list, the
\* video has one segment per asset, segment k lasts exactly as long as the
\* audio played for asset k (the asset's file, or silent.wav when it is
\* missing), the first segment starts at 0 and each next one where the previous
\* ends, and the total duration, which is also the length of the file written,
\* is the sum of the per-scene audio lengths.
C8_DurationsAddUp ==
    pc = "Returned" /\ ~Falsy(ret) =>
        /\ scene_data # << >>
        /\ Len(video.segments) = Len(scene_data)
        /\ \A k \in 1 .. Len(scene_data) :
             /\ video.segments[k].end - video.segments[k].start = fs[AudioOf(k)].ms
             /\ video.segments[k].start =
                  IF k = 1 THEN 0 ELSE video.segments[k - 1].end
        /\ video.duration = video.segments[Len(scene_data)].end
        /\ video.duration = AudioMsUpTo(Len(scene_data))
        /\ fs[ret] = Mp4(AudioMsUpTo(Len(scene_data)))

\* a video was assembled from two assets of different audio lengths, the
\* second asset having no audio and silent.wav standing in for it
C8_Witness ==
    /\ pc = "Returned"
    /\ ~Falsy(ret)
    /\ Len(scene_data) = 2
    /\ scene_data[1].audio_path = Audio0
    /\ scene_data[2].audio_path = None
    /\ video.duration = 4500

\* C9 as claimed: assemble_video returns None if and only if its input list is
\* empty, and then writes no file; for every non-empty input it returns the
\* path of the one output file it has written.
C9_FailureIffEmptyInput ==
    CallEnded =>
        /\ ret = None <=> scene_data = << >>
        /\ scene_data = << >> => \A p \in FinalPaths : ~Exists(fs, p)
        /\ scene_data # << >> =>
             /\ pc = "Returned"
             /\ ret \in FinalPaths
             /\ { p \in FinalPaths : Exists(fs, p) } = { ret }
             /\ fs[ret].kind = "mp4"

\* C10 as claimed: an asset whose image is missing gets a solid-colour
\* 1920x1080 frame, an asset whose audio is missing gets a short silent clip,
\* and in either case assembly goes on, builds that scene's segment and writes
\* the final file.
C10_MissingAssetsReplaced ==
    CallEnded =>
        \A k \in 1 .. Len(scene_data) :
            ImageMissing(k) \/ AudioMissing(k) =>
                /\ pc = "Returned"
                /\ Len(video.segments) = Len(scene_data)
                /\ ImageMissing(k) =>
                     /\ video.segments[k].image.src = "ColorClip"
                     /\ video.segments[k].image.w = 1920
                     /\ video.segments[k].image.h = 1080
                /\ AudioMissing(k) => video.segments[k].audio = SilentWavPath
                /\ ret \in FinalPaths
                /\ Exists(fs, ret)

\* the background track of the call was supplied and is on disk
BgSupplied == ~Falsy(background_music_path) /\ Exists(fs, background_music_path)

\* length of the concatenated voice timeline of the call
VoiceMs == AudioMsUpTo(Len(scene_data))

C12_BackgroundProblemsIsolated ==
    /\ pc = "Raised" =>
         \E k \in 1 .. Len(scene_data) :
            AudioMissing(k) /\ ~Exists(fs, SilentWavPath)
    /\ pc = "Returned" /\ scene_data # << >> =>
         /\ ret \in FinalPaths
         /\ fs[ret] = Mp4(VoiceMs)
         /\ \A k \in 1 .. Len(scene_data) : video.segments[k].audio = AudioOf(k)
         /\ ~BgSupplied => video.bg = "none"
         /\ video.bg \in { "none", "error" } =>
              video.bg_ms = 0 /\ video.bg_gain = 0

\* a step of the mix block raised on a track that exists, and the video was
\* written all the same
C12_Witness ==
    /\ pc = "Returned"
    /\ BgSupplied
    /\ video.bg = "error"
    /\ Exists(fs, ret)

-----------------------------------------------------------------------------
(* Order of the steps and notifications of a run, checked under Spec *)

\* the n-th component call of a run over nscenes scenes
ExpectedCall(n, nscenes) ==
    IF n = 1 THEN Call("process_script", 0)
    ELSE IF n = 2 * nscenes + 2 THEN Call("assemble_video", 0)
    ELSE IF n % 2 = 0 THEN Call("generate_voiceover_for_scene", (n - 2) \div 2)
    ELSE Call("generate_visual_for_scene", (n - 3) \div 2)

\* C13: the component calls of a run are, in this order, process_script once,
\* then for each scene index from 0 its voice-over call followed by its visual
\* call, then assemble_video once; the voice-over call of a scene is made only
\* when the pairs of all earlier scenes are recorded, and assemble_video only
\* when the pairs of all scenes are.
C13_StrictStepOrder ==
    /\ Len(calls) <= 2 * Len(processed_scenes) + 2
    /\ \A n \in 1 .. Len(calls) : calls[n] = ExpectedCall(n, Len(processed_scenes))
    /\ pc = "SceneAudio" => Len(calls) = 2 * i + 1 /\ Len(scene_assets) = i
    /\ pc = "SceneImage" => Len(calls) = 2 * i + 2 /\ Len(scene_assets) = i
    /\ LoopEnded => Len(scene_assets) = Len(processed_scenes)

\* a run over two scenes has made all its six calls
C13_Witness ==
    /\ pc = "Completed"
    /\ Len(processed_scenes) = 2
    /\ Len(calls) = 6

\* positions of the notifications of one kind
NotesOf(sig) == { n \in 1 .. Len(notes) : notes[n].sig = sig }

\* position of the first error notification; past the end when there is none
FirstError ==
    IF NotesOf("error_occurred") = { } THEN Len(notes) + 1
    ELSE CHOOSE e \in NotesOf("error_occurred") :
            \A n \in NotesOf("error_occurred") : e <= n

\* the run of the GUI backend has ended
BackendEnded == front = "gui" /\ pc \in { "Completed", "Failed" }

C15_ExactlyOneOutcome ==
    front = "gui" =>
        /\ pc \in { "Segmenting", "SceneAudio", "SceneImage", "Assembling" } =>
              NotesOf("video_generated") \cup NotesOf("error_occurred") = { }
        /\ BackendEnded =>
              /\ Cardinality(NotesOf("video_generated"))
                   + Cardinality(NotesOf("error_occurred")) = 1
              /\ pc = "Completed" <=> NotesOf("video_generated") # { }
              /\ pc = "Completed" <=> (ret \in FinalPaths /\ Exists(fs, ret))
              /\ \A n \in NotesOf("video_generated") : notes[n].path = ret

\* a run of the backend reached assembly with all its assets and failed there
C15_Witness ==
    /\ BackendEnded
    /\ pc = "Failed"
    /\ LoopEnded
    /\ Len(scene_assets) = Len(processed_scenes)
    /\ Cardinality(NotesOf("error_occurred")) = 1

C17_UnexpectedErrorsAbsorbed ==
    pc # "Raised"

-----------------------------------------------------------------------------
(* Properties of repeated generator calls, checked under SpecGenerators *)

\* the asset files of scene index k on disk in an output directory
AssetFiles(fsys, dir, k) ==
    { p \in AllPaths : p[1] = dir /\ p[3] = k /\ Exists(fsys, p) }

\* the files whose content a step changes
Changed == { p \in AllPaths : fs'[p] # fs[p] }

\* C18 as claimed: after any sequence of synthesis calls each output directory
\* holds at most one asset file per scene index.
C18_AsClaimed ==
    \A dir \in { "generated_audio", "generated_images" }, k \in RerunIndices :
        Cardinality(AssetFiles(fs, dir, k)) <= 1

\* C18: a synthesis call writes at most one file, the one whose path it
\* returns, in its own output directory and under the index it was called
\* with; it overwrites that file if it is there and touches no other file, so
\* the number of asset files of the index grows by one exactly when the file
\* of this call's outcome was not there yet, and stays within one file per
\* outcome name (three for audio, one for images).
C18_OverwritesPerOutcome ==
    [][ /\ \A p \in Changed : p = ret' /\ p[3] = i' /\ Exists(fs', p)
        /\ \A dir \in { "generated_audio", "generated_images" }, k \in RerunIndices :
              /\ Cardinality(AssetFiles(fs', dir, k))
                   = Cardinality(AssetFiles(fs, dir, k))
                     + (IF ~Falsy(ret') /\ ret'[1] = dir /\ ret'[3] = k
                           /\ ~Exists(fs, ret')
                        THEN 1 ELSE 0)
              /\ Cardinality(AssetFiles(fs', "generated_audio", k))
                   <= Cardinality(AudioStems)
              /\ Cardinality(AssetFiles(fs', "generated_images", k)) <= 1
      ]_vars

\* scene 0 was synthesised again with another outcome: the file of the failed
\* attempt and the file of the successful one are both on disk
C18_Witness ==
    /\ pc = "Generators"
    /\ Exists(fs, Path("generated_audio", "scene_error", 0))
    /\ Exists(fs, Path("generated_audio", "scene", 0))
    /\ ret = Path("generated_audio", "scene", 0)

-----------------------------------------------------------------------------
(* Properties of the window, checked under SpecGui *)

C20_AtMostOneActiveRun ==
    /\ window.workers <= 1
    /\ window.workers = 1 <=> window.worker_thread = "running"
    /\ window.workers = 1 => ~window.generate_video_btn
    /\ window.generate_video_btn => window.backend_initialized

\* a second worker is running: the first one has finished, its handler has
\* enabled the button again and a second click went through
C20_Witness ==
    /\ window.started = 2
    /\ window.workers = 1
    /\ window.worker_thread = "running"
    /\ pc = "SceneAudio"

-----------------------------------------------------------------------------
(* Properties of repeated runs, checked under SpecGui *)

\* C21: a run that ended, Failed or Completed, does not end the orchestrator.
\* Once the finished handler has run the Generate button takes the next
\* request, and the run that request starts begins again at segmentation:
\* process_script is its first call, 0 is the first progress it reports, its
\* list of scene assets holds one entry per scene it has processed itself and
\* nothing of the previous run.
C21_RerunStartsAfresh ==
    /\ window.started >= 1 /\ window.worker_thread = "None"
         => window.generate_video_btn
    /\ window.started >= 2 =>
         /\ calls # << >> => calls[1] = Call("process_script", 0)
         /\ Len(notes) >= 2 => notes[2] = Progress(0)
         /\ pc \in { "SceneAudio", "SceneImage" } =>
              /\ i < Len(processed_scenes)
              /\ Len(scene_assets) = i
         /\ pc \in { "Assembling", "Completed" } =>
              Len(scene_assets) = Len(processed_scenes)
         /\ pc = "Completed" => Len(video.segments) = Len(processed_scenes)

\* C21 witness: a second run has reached assembly with its one scene asset,
\* after a first run that wrote no video, that is, ended Failed
C21_Witness ==
    /\ window.started = 2
    /\ pc = "Assembling"
    /\ Len(scene_assets) = 1
    /\ \A p \in AllPaths : p[1] = "final_videos" => ~Exists(fs, p)

-----------------------------------------------------------------------------
(* Properties of the segmenter, checked under SpecSegmenter *)

\* the words of the scenes, scene after scene
RECURSIVE WordsOfAll(_)
WordsOfAll(scenes) ==
    IF scenes = << >> THEN << >>
    ELSE SplitWords(Head(scenes)) \o WordsOfAll(Tail(scenes))

\* C22: the scenes come in script order, the words of the scenes read one
\* scene after the other being the words of the script in their order; no
\* scene is empty or made of white space only; a script that is empty or made
\* of white space only gives the empty list.
C22_ScenesInOrderNoneBlank ==
    pc = "Scenes" =>
        /\ WordsOfAll(processed_scenes) = SplitWords(raw_script)
        /\ \A k \in 1 .. Len(processed_scenes) : Strip(processed_scenes[k]) # << >>
        /\ SplitWords(raw_script) = << >> => processed_scenes = << >>

\* C22 witness: a script whose short scenes are held back and emitted before a
\* later long scene has been split into three scenes
C22_Witness ==
    /\ pc = "Scenes"
    /\ Len(processed_scenes) = 3
    /\ \E k \in 1 .. Len(raw_script) : raw_script[k] = "\r"
    /\ Len(sent_tokenize(processed_scenes[2])) < ShortSceneSentences
    /\ Len(sent_tokenize(processed_scenes[3])) >= ShortSceneSentences

-----------------------------------------------------------------------------
(* The two-scene run, checked under Spec *)

-----------------------------------------------------------------------------
(* Termination of a run, checked under SpecFair *)

\* the run is in segmentation, in the scene loop or in assembly
Running == pc \in { "Segmenting", "SceneAudio", "SceneImage", "Assembling" }

\* C24: a run of the backend of app.py, once started, reaches Completed or
\* Failed, every call it makes returning or raising; from segmentation, the
\* scene loop and assembly it goes nowhere else, and once ended it stays ended.
C24_StartedRunTerminates ==
    /\ (Running /\ front = "gui") ~> (pc \in { "Completed", "Failed" })
    /\ [][front = "gui" /\ Running =>
            (Running \/ pc \in { "Completed", "Failed" })']_vars
    /\ [][front = "gui" /\ pc \in { "Completed", "Failed" } => pc' = pc]_vars

\* C24 witness: a run of the backend went through segmentation, two scenes
\* and assembly and has ended
C24_Witness ==
    /\ front = "gui"
    /\ pc \in { "Completed", "Failed" }
    /\ Len(scene_assets) = 2
    /\ calls[Len(calls)] = Call("assemble_video", 0)

-----------------------------------------------------------------------------
(* Start-up of the GUI, checked under SpecStartup *)

\* C25 as claimed: once the window is built, its backend having emitted
\* backend_ready(True) with both engines loaded, backend_initialized is true
\* and the Generate button is enabled, so that a run can be started.
C25_ReadinessReachesWindow ==
    /\ pc = "Idle"
    /\ BackendReady \in { notes[n] : n \in 1 .. Len(notes) }
    /\ apps.vo_model # "None"
    /\ apps.vis_pipeline # "None"
    => /\ window.backend_initialized
       /\ window.generate_video_btn

-----------------------------------------------------------------------------
(* The availability flags, checked under Spec *)

\* C26: each availability flag of the process only ever goes from available
\* to unavailable, whatever generator is constructed later; while the voice
\* flag is down every voice-over call of the run has returned the silence of
\* the unavailable engine without calling the engine, also when the
\* generator's own model is loaded, and while the image flag is down every
\* visual call has returned the empty path.
C26_AvailabilityOnlyLost ==
    /\ [][/\ ~CHATTTERBOX_AVAILABLE => ~CHATTTERBOX_AVAILABLE'
          /\ ~VISUAL_GENERATOR_AVAILABLE => ~VISUAL_GENERATOR_AVAILABLE']_vars
    /\ [](~CHATTTERBOX_AVAILABLE =>
            \A k \in 1 .. Len(hist.voice) :
                /\ hist.voice[k].branch = "unavailable"
                /\ ~hist.voice[k].called
                /\ hist.voice[k].wrote =
                     { << hist.voice[k].path, Wav(UnavailableSilenceMs) >> })
    /\ [](~VISUAL_GENERATOR_AVAILABLE =>
            \A k \in 1 .. Len(hist.visual) :
                /\ hist.visual[k].branch = "unavailable"
                /\ ~hist.visual[k].called
                /\ hist.visual[k].path = EmptyStr)

\* C26 witness: the application object of the run loaded both models, another
\* object's construction then failed for both engines, and the run's
\* generators have returned the fallbacks
C26_Witness ==
    /\ apps.vo_model = "loaded"
    /\ apps.vis_pipeline = "loaded"
    /\ apps.others >= 1
    /\ ~CHATTTERBOX_AVAILABLE
    /\ ~VISUAL_GENERATOR_AVAILABLE
    /\ hist.voice # << >>
    /\ hist.visual # << >>

-----------------------------------------------------------------------------
(* Content of the scenes, checked under SpecSegmenter *)

\* the paragraphs of the scenes, scene after scene
RECURSIVE ParagraphsOfAll(_)
ParagraphsOfAll(scenes) ==
    IF scenes = << >> THEN << >>
    ELSE SplitBlankLines(Head(scenes)) \o ParagraphsOfAll(Tail(scenes))

\* the scenes before the cleaning loop
ScenesBeforeCleaning ==
    IF Strip(raw_script) = << >> THEN << >>
    ELSE MergeShortScenes(GroupParagraphs(SplitParagraphs(NormalisedScript(raw_script)),
                                          << >>, << >>),
                          0, << >>, << >>)

\* C27 as claimed: every non-empty paragraph of the script is in exactly one
\* scene, the scenes joined with blank lines are the normalised script, and
\* the cleaning loop removes no scene.
C27_AsClaimed ==
    pc = "Scenes" =>
        /\ ParagraphsOfAll(processed_scenes) = SplitParagraphs(NormalisedScript(raw_script))
        /\ JoinBlankLines(processed_scenes) = NormalisedScript(raw_script)
        /\ Len(processed_scenes) = Len(ScenesBeforeCleaning)

\* C27: every non-empty paragraph of the script is in exactly one scene, in
\* script order; the scenes joined with blank lines are the normalised script
\* with every paragraph trimmed and the paragraphs of white space left out;
\* the cleaning loop removes no scene.
C27_ContentKeptParagraphsTrimmed ==
    pc = "Scenes" =>
        /\ ParagraphsOfAll(processed_scenes) = SplitParagraphs(NormalisedScript(raw_script))
        /\ JoinBlankLines(processed_scenes) =
             JoinBlankLines(SplitParagraphs(NormalisedScript(raw_script)))
        /\ processed_scenes = ScenesBeforeCleaning

\* C27 witness: a script with a paragraph that had to be trimmed or left out
\* has been split into two or more scenes, the first a fragment the cleaning
\* loop looks at, another made of two paragraphs
C27_Witness ==
    /\ pc = "Scenes"
    /\ Len(processed_scenes) >= 2
    /\ JoinBlankLines(processed_scenes) # NormalisedScript(raw_script)
    /\ IsFragment(processed_scenes[1])
    /\ \E k \in 1 .. Len(processed_scenes) :
         Len(SplitBlankLines(processed_scenes[k])) >= 2

\* the paragraphs of the script, as the first loop receives them
ScriptParagraphs == SplitParagraphs(NormalisedScript(raw_script))

\* C28 as claimed: when each of the k >= 1 paragraphs of the script begins
\* with a scene marker, the scenes returned are those k paragraphs, one scene
\* per marker and in order, however short they are.
C28_OneScenePerMarker ==
    /\ pc = "Scenes"
    /\ ScriptParagraphs # << >>
    /\ \A k \in 1 .. Len(ScriptParagraphs) : is_scene_indicator(ScriptParagraphs[k])
    => processed_scenes = ScriptParagraphs

-----------------------------------------------------------------------------
(* Asset paths of a run, checked under Spec *)

\* the directories the assets of the scenes are written to
AssetDirs == { "generated_audio", "generated_images", "temp_assets" }

\* a step of the scene loop changes asset files of the scene it works on only
WritesOwnSceneOnly ==
    pc \in { "SceneAudio", "SceneImage" } =>
        (\A p \in AllPaths : (p[1] \in AssetDirs /\ fs'[p] # fs[p]) => p[3] = i)

\* C29: the audio paths recorded for two different scenes of a run differ,
\* and so do the image paths, whatever mix of generated and fallback assets
\* the run has; each recorded path carries the index of its scene; and a step
\* of the scene loop writes asset files of the scene it works on only, so no
\* scene's file is overwritten for another scene.
C29_AssetPathsDistinct ==
    /\ [](\A j \in 1 .. Len(scene_assets), k \in 1 .. Len(scene_assets) :
            /\ scene_assets[k].audio_path[3] = k - 1
            /\ scene_assets[k].image_path[3] = k - 1
            /\ j # k => /\ scene_assets[j].audio_path # scene_assets[k].audio_path
                        /\ scene_assets[j].image_path # scene_assets[k].image_path)
    /\ [][WritesOwnSceneOnly]_vars

\* C29 witness: a run has recorded two scenes, one with a synthesised voice
\* and a generated image, the other with fallbacks for both
C29_Witness ==
    /\ Len(scene_assets) = 2
    /\ \E j \in 1 .. 2, k \in 1 .. 2 :
         /\ j # k
         /\ hist.voice[j].branch = "ok"
         /\ hist.visual[j].branch = "ok"
         /\ hist.voice[k].branch # "ok"
         /\ hist.visual[k].branch # "ok"

-----------------------------------------------------------------------------
(* The empty-input return of the assembler, checked under Spec *)

\* assemble_video has been called in the run
AssemblyCalled == \E n \in 1 .. Len(calls) : calls[n].fn = "assemble_video"

\* C30: an orchestrated run calls assemble_video with a non-empty list of
\* scene assets only; no run reports an error and a later progress of 100, the
\* notifications of the orchestrator's branch for an assembler that returned
\* nothing; a run that has called the assembler and did not complete ended
\* through a raised exception, reported in the GUI backend by the
\* notifications of the except clause.
C30_EmptyAssemblyUnreachable ==
    /\ pc = "Assembling" \/ AssemblyCalled => scene_assets # << >>
    /\ \A m \in 1 .. Len(notes), n \in 1 .. Len(notes) :
         ~(m < n /\ notes[m] = Error /\ notes[n] = Progress(100))
    /\ AssemblyCalled /\ pc # "Completed" =>
         /\ pc = ExceptionOutcome(front)
         /\ Falsy(ret)
         /\ video = NoVideo
         /\ front = "gui" =>
              SubSeq(notes, Len(notes) - 1, Len(notes)) = ExceptNotes

\* C30 witness: the assembler was given two scene assets and the encoder
\* raised: the run of the GUI backend ended Failed
C30_Witness ==
    /\ AssemblyCalled
    /\ front = "gui"
    /\ pc = "Failed"
    /\ Len(scene_assets) = 2

====
